---- MODULE Spec2Model ----
(***************************************************************************)
(* A model of react-native-beautiful-logs: the filename policy             *)
(* (utils.ts), the file-backed session manager (fileManager.ts), the       *)
(* legacy session manager (logs.js) and the Logger class (Logger.ts).      *)
(*                                                                         *)
(* Asynchronous code is modelled at the granularity of its suspension      *)
(* points: one action is the completion of the storage primitive a task    *)
(* is awaiting (its effect on storage, or its failure) followed by the     *)
(* synchronous code that runs up to the next await.                        *)
(***************************************************************************)
EXTENDS Integers, Sequences, FiniteSets, TLC

NULL == "null"

(***************************************************************************)
(* Calendar arithmetic as moment.js performs it on local dates.            *)
(***************************************************************************)

\* Bounds of the date model.
FirstYear == 2023
NumYears == 2
MaxTicks == 2

IsLeap(y) == (y % 4 = 0 /\ y % 100 # 0) \/ y % 400 = 0

DaysInMonth(y, m) ==
  IF m = 2 THEN (IF IsLeap(y) THEN 29 ELSE 28)
  ELSE IF m \in {4, 6, 9, 11} THEN 30 ELSE 31

MkDate(y, m, d) == [y |-> y, m |-> m, d |-> d]

\* No date: nothing was generated yet.
NoDate == MkDate(0, 0, 0)

\* A plausible slip: the window taken one day too far back.
SubtractTwoDays(t) ==
  IF t.d > 2 THEN MkDate(t.y, t.m, t.d - 2) ELSE MkDate(t.y, t.m, 1)

\* moment#subtract(1, 'day'): the day before, borrowing from the month and year.
SubtractDay(t) ==
  IF t.d > 1 THEN MkDate(t.y, t.m, t.d - 1)
  ELSE IF t.m > 1 THEN MkDate(t.y, t.m - 1, DaysInMonth(t.y, t.m - 1))
  ELSE MkDate(t.y - 1, 12, 31)

\* The calendar day after t (the clock passing midnight).
NextDay(t) ==
  IF t.d < DaysInMonth(t.y, t.m) THEN MkDate(t.y, t.m, t.d + 1)
  ELSE IF t.m < 12 THEN MkDate(t.y, t.m + 1, 1)
  ELSE MkDate(t.y + 1, 1, 1)

\* Day counting: the days of the months and of the years before a date.
RECURSIVE DaysBeforeMonth(_, _)
DaysBeforeMonth(y, m) == IF m = 1 THEN 0 ELSE DaysBeforeMonth(y, m - 1) + DaysInMonth(y, m - 1)

\* The leap years before the year y.
LeapsBefore(y) == ((y - 1) \div 4) - ((y - 1) \div 100) + ((y - 1) \div 400)

DaysBeforeYear(y) == 365 * (y - 1970) + LeapsBefore(y) - LeapsBefore(1970)

\* The ordinal of a date: its day number, counted from 1970-01-01 as day 1.
Ordinal(t) == DaysBeforeYear(t.y) + DaysBeforeMonth(t.y, t.m) + t.d

\* moment(0): the fallback date of a name that carries no date.
Epoch == MkDate(1970, 1, 1)

Years == FirstYear .. (FirstYear + NumYears - 1)

\* The calendar dates of the years ys.
DatesOf(ys) ==
  {t \in {MkDate(y, m, d) : y \in ys, m \in 1..12, d \in 1..31} : t.d <= DaysInMonth(t.y, t.m)}

AllDates == DatesOf(Years)

\* The dates of t's month and of the month before it.
DatesNear(t) ==
  LET py == IF t.m = 1 THEN t.y - 1 ELSE t.y
      pm == IF t.m = 1 THEN 12 ELSE t.m - 1
  IN {MkDate(t.y, t.m, d) : d \in 1..DaysInMonth(t.y, t.m)}
       \cup {MkDate(py, pm, d) : d \in 1..DaysInMonth(py, pm)}

Digit(n) ==
  CASE n = 0 -> "0" [] n = 1 -> "1" [] n = 2 -> "2" [] n = 3 -> "3"
    [] n = 4 -> "4" [] n = 5 -> "5" [] n = 6 -> "6" [] n = 7 -> "7"
    [] n = 8 -> "8" [] n = 9 -> "9"

Pad2(n) == Digit((n \div 10) % 10) \o Digit(n % 10)

Pad4(n) == Digit((n \div 1000) % 10) \o Digit((n \div 100) % 10) \o Pad2(n % 100)

\* moment#format('YYYY-MM-DD')
FormatDate(t) == Pad4(t.y) \o "-" \o Pad2(t.m) \o "-" \o Pad2(t.d)

LOG_FILE_PREFIX == "session_"
LOG_FILE_SUFFIX == ".txt"

\* A plausible slip: the parity test inverted.
getBaseLogDateInverted(today) ==
  IF today.d % 2 = 0 THEN today ELSE SubtractDay(today)

\* utils.ts getBaseLogDate: today on an odd day of the month, yesterday on an even one.
getBaseLogDate(today) ==
  IF today.d % 2 # 0 THEN today ELSE SubtractDay(today)

\* utils.ts generateLogFilename, at the moment `today`.
generateLogFilename(today) ==
  LOG_FILE_PREFIX \o FormatDate(getBaseLogDate(today)) \o LOG_FILE_SUFFIX

(***************************************************************************)
(* fileManager.ts: constants, storage and session state.                   *)
(***************************************************************************)

MAX_LOG_FILES == 50
MAX_LOG_SIZE_MB == 10
MAX_LOG_AGE_DAYS == 30

\* Bounds of the session model.
MaxTasks == 2        \* top-level calls issued in one run
MaxMidnights == 1    \* midnights passed in one run
MaxFaults == 1       \* storage primitives failing in one run
StartDate == MkDate(2024, 3, 14)   \* the date at which a run starts
EntryBytes == 1      \* the size of one appended line, in bytes
SmallBytes == 100    \* the size of a small file found at start

\* The retention limits of constants.ts.
DefaultLimits ==
  [maxFiles |-> MAX_LOG_FILES, maxAgeDays |-> MAX_LOG_AGE_DAYS, maxSizeMB |-> MAX_LOG_SIZE_MB]

\* A size check that never fires.
SizeCheckOff(size, maxMB) == FALSE

\* stats.size / (1024 * 1024) > MAX_LOG_SIZE_MB, on a size in bytes.
OverSizeLimit(size, maxMB) == size > maxMB * 1024 * 1024

Platforms == {"android", "ios"}

\* dirsToTry: the preferred base directory, then the fallbacks that differ from it.
dirsToTry(os) ==
  IF os = "ios" THEN <<"Documents", "Caches">> ELSE <<"Caches", "Documents">>

\* `${baseDir}/${LOGS_SUBDIR}`
LogsPath(baseDir) == baseDir \o "/logs"

\* `${logDirectoryPath}/${fileName}`, kept as its two parts.
MkPath(dir, name) == [dir |-> dir, name |-> name]

NoPath == MkPath(NULL, NULL)

\* currentSessionLogPath.split('/').pop()
FileNameOf(path) == path.name

VARIABLES
  now,       \* the current local date
  ticks,     \* midnights passed so far
  fname,     \* the last filename generated (NULL: none yet)
  genAt,     \* the date at which fname was generated
  prevName,  \* the filename generated before fname
  prevAt,    \* the date at which prevName was generated
  platform,                  \* Platform.OS
  limits,                    \* MAX_LOG_FILES, MAX_LOG_AGE_DAYS, MAX_LOG_SIZE_MB of the build
  isSessionInitialized,      \* fileManager.ts module state
  logDirectoryPath,
  currentSessionLogPath,
  initializationInProgress,
  dirs,      \* the logs directories that exist on storage
  files,     \* the files on storage: path -> [size, lines]
  probes,    \* the write-probe files left on storage (by logs directory)
  tasks,     \* the top-level calls issued so far, in submission order
  sweeps,    \* the retention sweeps in flight
  faults,    \* the number of storage primitives that have failed so far
  budget,    \* the calls and the failures one run may have
  hist,      \* what has been observed so far (history)
  written,   \* the string handed to appendToFile (UTF-16 code units)
  disk,      \* the bytes of the file it went to
  readBack,  \* what readLogFile resolved to for that file
  phase,     \* how far the write and the read of that string have got
  filters,   \* the configured filters (config.filters, LOG_FILTERS)
  args,      \* the message arguments of a log call
  outcome,   \* what that call produced: console outputs and appends of the entry
  instance,  \* Logger.instance
  calls,     \* the calls made on the exports of index.ts, in order
  given      \* the configuration passed to the last initLogger

\* The history before anything has happened.
NoHist ==
  [trueReturned |-> FALSE,   \* initSessionLog has resolved to true
   trueUnready |-> FALSE,    \* ... at a moment when the session was not ready
   swept |-> FALSE,          \* a sweep has applied its rules with the active file listed
   spared |-> FALSE,         \* ... and the active file met a rule but was not selected
   picked |-> FALSE,         \* a sweep has selected the file at the active path
   hit |-> FALSE,            \* a sweep has issued unlink on the active path
   cleanSweep |-> FALSE,     \* a sweep has run to its end, every stat and unlink succeeding
   abandoned |-> FALSE]      \* a sweep has ended at a failed stat with files left unexamined

dateVars == <<now, ticks, fname, genAt, prevName, prevAt>>

sessVars == <<isSessionInitialized, logDirectoryPath, currentSessionLogPath,
              initializationInProgress>>

\* The string whose way through the fallback encoding is followed.
codecVars == <<written, disk, readBack, phase>>

filterVars == <<filters, args, outcome>>

configVars == <<instance, calls, given>>

appVars == <<codecVars, filterVars, configVars>>

\* No log call has been followed.
NoOutcome == [impl |-> "none", console |-> 0, appends |-> 0]

\* Logger.instance is undefined.
NoInstance == [made |-> FALSE, config |-> <<>>]

\* readLogFile resolved to null, or to the string `text`.
NoRead == [null |-> TRUE, text |-> <<>>]

\* No string is being followed.
CodecIdle == written = <<>> /\ disk = <<>> /\ readBack = NoRead /\ phase = "off"

FilterIdle == filters = <<>> /\ args = <<>> /\ outcome = NoOutcome

ConfigIdle == instance = NoInstance /\ calls = <<>> /\ given = <<>>

AppIdle == CodecIdle /\ FilterIdle /\ ConfigIdle

fmVars ==
  <<platform, limits, sessVars, dirs, files, probes, tasks, sweeps, faults, budget, hist,
    appVars>>

vars == <<dateVars, fmVars>>

(***************************************************************************)
(* Storage: the platform primitives' effects.                              *)
(***************************************************************************)

EmptyFile == [size |-> 0, lines |-> <<>>]

\* The content of an appendFile call: a log entry, a session marker, or ''.
Line(kind, id) == [kind |-> kind, id |-> id, enc |-> "utf8"]

EmptyContent == Line("empty", 0)

FileExists(fs, p) == p \in DOMAIN fs

PutFile(fs, p, f) == [q \in DOMAIN fs \cup {p} |-> IF q = p THEN f ELSE fs[q]]

RemoveFile(fs, p) == [q \in DOMAIN fs \ {p} |-> fs[q]]

\* fs.appendFile(p, content, enc): the file is created when it is missing; with
\* 'base64' the primitive decodes the data and appends the bytes it stands for.
AppendFile(fs, p, content, enc) ==
  LET old == IF FileExists(fs, p) THEN fs[p] ELSE EmptyFile IN
  PutFile(fs, p,
    IF content.kind = "empty" THEN old
    ELSE [size |-> old.size + EntryBytes,
          lines |-> Append(old.lines, [content EXCEPT !.enc = enc])])

(***************************************************************************)
(* Tasks: one per top-level call, suspended at an await (pc).              *)
(***************************************************************************)

\* The calls whose result depends on the session at the moment of the call.
SessionOps == {"deleteLogFile", "deleteAllLogs", "cleanupCurrentSession", "getLogFiles"}

NewTask(op, arg) ==
  [op |-> op, pc |-> "start", ret |-> NULL, aret |-> NULL, dirIdx |-> 0,
   filePath |-> NoPath, createdNewFile |-> FALSE, content |-> EmptyContent,
   arg |-> arg, res |-> NULL, fate |-> NULL,
   raised |-> FALSE,    \* the call rejected: an error reached its caller
   name |-> NULL,       \* the filename argument of a loggerInterface call
   gret |-> NULL, rret |-> NULL, dret |-> NULL,  \* who awaits the nested call
   pending |-> {},      \* the unlinks of deleteAllLogs still in flight
   allOk |-> TRUE,      \* ... and whether every deletion so far succeeded
   saved |-> NoPath,    \* pathToDelete of cleanupCurrentSession
   at |-> now,          \* the date at which the call was issued
   busy |-> initializationInProgress,  \* ... and whether an initialization was running
   wroteTo |-> NULL,    \* the name of the file the call's entry was appended to
   list |-> <<>>,       \* the names a loop of the Logger class goes over
   todo |-> <<>>,       \* ... and those it has not reached yet
   why |-> NULL,        \* the rule for which a sweep of the Logger class deletes a file
   asked |-> NULL,      \* the filename the caller passed (kept after the return)
   reinit |-> NULL,     \* what the re-initialization for a missing file resolved to
   dirLog |-> <<>>,     \* why each candidate directory tried so far was given up
   curAt |-> IF op \in SessionOps THEN currentSessionLogPath ELSE NoPath,
                        \* the active file at the moment of the call
   alone |-> /\ op \in SessionOps      \* no other call and no sweep was running then
             /\ sweeps = <<>>
             /\ \A i \in 1..Len(tasks) : tasks[i].pc = "done"]

\* The call has returned `res` to its caller; `fate` says what became of it.
Finish(w, res, fate) ==
  [w EXCEPT !.me = [@ EXCEPT !.pc = "done", !.res = res, !.fate = fate,
                             !.ret = NULL, !.aret = NULL, !.dirIdx = 0,
                             !.filePath = NoPath, !.createdNewFile = FALSE,
                             !.content = EmptyContent, !.name = NULL,
                             !.gret = NULL, !.rret = NULL, !.dret = NULL,
                             !.pending = {}, !.allOk = TRUE, !.saved = NoPath,
                             !.list = <<>>, !.todo = <<>>, !.why = NULL,
                             !.dirLog = <<>>]]

\* No handler encloses the await: the rejection reaches the caller.
Uncaught(w) == Finish([w EXCEPT !.me.raised = TRUE], NULL, NULL)

\* isSessionInitialized = false; currentSessionLogPath = null;
Invalidate(w) ==
  [w EXCEPT !.isSessionInitialized = FALSE, !.currentSessionLogPath = NoPath]

(***************************************************************************)
(* fileManager.ts writeToFile and appendToFile: the synchronous code       *)
(* between awaits.                                                         *)
(***************************************************************************)

\* appendToFile(filePath, content): the first appendFile (UTF-8) is issued.
AppendIssue(w, aret, content) ==
  [w EXCEPT !.me.pc = "A_utf8", !.me.aret = aret, !.me.content = content]

\* writeToFile after appendToFile returned: the size check is issued when the
\* limit is enabled and the session is still marked initialized.
AfterEntry(w) ==
  IF limits.maxSizeMB > 0 /\ w.isSessionInitialized
  THEN [w EXCEPT !.me.pc = "W_stat"]
  ELSE Finish(w, "void", w.me.fate)

\* writeToFile: the entry is prepared and exists(currentPath) is issued.
WritePrepare(w) ==
  [w EXCEPT !.me.pc = "W_exists", !.me.filePath = w.currentSessionLogPath]

\* writeToFile after `await initSessionLog()` (line 583).
WriteAfterInit(w, initialized) ==
  IF ~initialized \/ w.currentSessionLogPath = NoPath
  THEN Finish(w, "void", "dropped")
  ELSE WritePrepare(w)

\* writeToFile after the re-initialization for a missing file (line 613).
WriteAfterReinit(w, reinitialized) ==
  LET v == [w EXCEPT !.me.reinit = IF reinitialized THEN "true" ELSE "false"]
  IN IF ~reinitialized \/ w.currentSessionLogPath = NoPath
     THEN Finish(v, "void", "dropped")
     ELSE AppendIssue([v EXCEPT !.me.filePath = w.currentSessionLogPath], "entry",
                      Line("entry", w.me.arg))

(***************************************************************************)
(* fileManager.ts cleanupOldLogs: the start of a sweep.                    *)
(***************************************************************************)

\* dir: the directory the pending primitive was issued on.
NoEval ==
  [cur |-> NoPath, sorted |-> <<>>, bad |-> {}, byCount |-> {}, byAge |-> {}, bySize |-> {}]

\* eval: what the sweep's rules were applied to and what each of them marked;
\* failed: a stat or an unlink of the sweep has failed; made: the file made
\* active by the initialization that launched the sweep (lines 213-235).
NewSweep(dir, made) ==
  [pc |-> "S_ls", dir |-> dir, names |-> {}, pending |-> {}, eval |-> NoEval,
   failed |-> FALSE, made |-> made]

AllLimitsDisabled == limits.maxFiles <= 0 /\ limits.maxAgeDays <= 0 /\ limits.maxSizeMB <= 0

\* cleanupOldLogs() up to its first await: fs.ls(logDirectoryPath) is issued
\* unless the directory is unknown or every limit is disabled.
SweepSpawn(w) ==
  IF w.logDirectoryPath = NULL \/ AllLimitsDisabled THEN w
  ELSE [w EXCEPT !.sweeps = Append(@, NewSweep(w.logDirectoryPath, w.me.filePath))]

(***************************************************************************)
(* fileManager.ts initSessionLog: the synchronous code between awaits.     *)
(***************************************************************************)

\* initSessionLog resolves to a value: the caller's code after its await runs
\* (defined with the callers, below).
RECURSIVE InitReturn(_, _)

\* A plausible slip: no finally block, the lock stays taken.
InitKeepsLock(w, value) == InitReturn([w EXCEPT !.me.dirLog = <<>>], value)

\* The finally block: the lock is released, whatever the outcome.
InitFinish(w, value) ==
  InitReturn([w EXCEPT !.initializationInProgress = FALSE, !.me.dirLog = <<>>], value)

\* A failure outcome that reports success to the caller.
AllFailedResolvesTrue(w) ==
  IF w.me.dirIdx < Len(dirsToTry(platform))
  THEN [w EXCEPT !.me.dirIdx = @ + 1, !.me.pc = "T_exists"]
  ELSE InitFinish([w EXCEPT !.isSessionInitialized = FALSE,
                            !.logDirectoryPath = NULL,
                            !.currentSessionLogPath = NoPath], TRUE)

\* The directory loop moves on; after the last directory, the failure outcome
\* (lines 255-265): the state is reset and false is returned.
TryNextDir(w) ==
  IF w.me.dirIdx < Len(dirsToTry(platform))
  THEN [w EXCEPT !.me.dirIdx = @ + 1, !.me.pc = "T_exists"]
  ELSE InitFinish([w EXCEPT !.isSessionInitialized = FALSE,
                            !.logDirectoryPath = NULL,
                            !.currentSessionLogPath = NoPath], FALSE)

\* catch (fileError), lines 238-250: the paths are reset and the loop goes on.
FileError(w) ==
  TryNextDir([w EXCEPT !.logDirectoryPath = NULL,
                       !.currentSessionLogPath = NoPath,
                       !.isSessionInitialized = FALSE,
                       !.me.dirLog = Append(@, "setup")])

\* tryCreateDirectory returned null (lines 72-79, 188): the next directory.
ProbeFailed(w) == TryNextDir([w EXCEPT !.me.dirLog = Append(@, "probe")])

\* A plausible slip: the session file is set up in the preferred directory,
\* whichever candidate passed the probe.
InitUsePreferred(w, logsPath) ==
  [w EXCEPT !.logDirectoryPath = LogsPath(dirsToTry(platform)[1]),
            !.me.filePath = MkPath(LogsPath(dirsToTry(platform)[1]), generateLogFilename(now)),
            !.me.createdNewFile = FALSE,
            !.me.pc = "I_exists"]

\* tryCreateDirectory returned logsPath: the session file of the current
\* window is looked up in it (lines 190-199).
InitUseDir(w, logsPath) ==
  [w EXCEPT !.logDirectoryPath = logsPath,
            !.me.filePath = MkPath(logsPath, generateLogFilename(now)),
            !.me.createdNewFile = FALSE,
            !.me.pc = "I_exists"]

\* After `await appendToFile(filePath, '')` (line 204).
AfterCreate(w) == [w EXCEPT !.me.createdNewFile = TRUE, !.me.pc = "I_final"]

\* The success point (lines 216-227): the state is set and the marker appended.
InitSuccessPoint(w) ==
  AppendIssue([w EXCEPT !.currentSessionLogPath = w.me.filePath,
                        !.isSessionInitialized = TRUE],
              "marker",
              Line(IF w.me.createdNewFile THEN "new" ELSE "resumed", w.me.arg))

\* After the marker (lines 229-237, 267): the sweep is started in the
\* background and true is returned.
AfterMarker(w) == InitFinish(SweepSpawn(w), TRUE)

\* appendToFile returns (it never throws) to the code that awaited it.
AppendReturn(w) ==
  CASE w.me.aret = "create" -> AfterCreate(w)
    [] w.me.aret = "marker" -> AfterMarker(w)
    [] OTHER -> AfterEntry(w)

\* The concurrency lock (lines 156-183): wait and re-check when an
\* initialization is running, else take the lock and try the first directory.
InitLock(w, ret) ==
  IF w.initializationInProgress
  THEN [w EXCEPT !.me.pc = "I_wait", !.me.ret = ret]
  ELSE [w EXCEPT !.initializationInProgress = TRUE, !.logDirectoryPath = NULL,
                 !.me.pc = "T_exists", !.me.dirIdx = 1, !.me.ret = ret,
                 !.me.dirLog = <<>>]

\* initSessionLog up to its first await (lines 117-165).
InitEnter(w, ret) ==
  IF w.isSessionInitialized /\ w.currentSessionLogPath # NoPath /\ w.logDirectoryPath # NULL
  THEN IF FileNameOf(w.currentSessionLogPath) = generateLogFilename(now)
       THEN [w EXCEPT !.me.pc = "I_fast", !.me.ret = ret,
                      !.me.filePath = w.currentSessionLogPath]
       ELSE InitLock(Invalidate(w), ret)
  ELSE InitLock(w, ret)

\* writeToFile up to its first await (lines 577-605).
WriteEnter(w) ==
  IF ~w.isSessionInitialized \/ w.currentSessionLogPath = NoPath \/ w.logDirectoryPath = NULL
  THEN InitEnter(w, "W1")
  ELSE WritePrepare(w)

(***************************************************************************)
(* fileManager.ts cleanupOldLogs and deleteLogFileInternal.                *)
(***************************************************************************)

\* Bounds of the directory contents.
OldLogDate == MkDate(2024, 1, 1)      \* a log file older than the age limit
FutureLogDate == MkDate(2024, 3, 17)  \* a log file dated after the start of the run
RecentLogDates == {MkDate(2024, 3, 9), MkDate(2024, 3, 11)}  \* the windows before the start
MarchFirst == MkDate(2024, 3, 1)      \* the date of session_2024-03-01.txt

\* The dates of the names that storage can hold in a run.
KnownLogDates ==
  {OldLogDate, FutureLogDate, getBaseLogDate(StartDate), getBaseLogDate(NextDay(StartDate)),
   getBaseLogDate(NextDay(NextDay(StartDate)))} \cup RecentLogDates \cup {StartDate, MarchFirst}

\* A name with the prefix and the suffix of a log file and no date in it.
UndatedLogName == LOG_FILE_PREFIX \o "notes" \o LOG_FILE_SUFFIX

LogName(date) == LOG_FILE_PREFIX \o FormatDate(date) \o LOG_FILE_SUFFIX

\* name.match(/(\d{4}-\d{2}-\d{2})/) and moment(..., 'YYYY-MM-DD').startOf('day'):
\* the date a name carries, or the epoch when it carries none.
DatedLogNames == {LogName(d) : d \in KnownLogDates}

DateInName == [n \in DatedLogNames |-> CHOOSE d \in KnownLogDates : LogName(d) = n]

ParseNameDate(name) ==
  IF name \in DatedLogNames THEN DateInName[name] ELSE Epoch

\* The details of the files whose stat succeeded (lines 397-424); a date is
\* kept as its day number (date.valueOf() orders and subtracts the same way).
DetailedFiles(fs, statDir, names, bad) ==
  {[name |-> n, date |-> Ordinal(ParseNameDate(n)), path |-> MkPath(statDir, n),
    size |-> fs[MkPath(statDir, n)].size] :
      n \in {m \in names \ bad : FileExists(fs, MkPath(statDir, m))}}

\* detailedFiles.sort by date, most recent first: the orders the sort can give.
SortedOrders(S) ==
  {f \in [1..Cardinality(S) -> S] :
     /\ \A i, j \in 1..Cardinality(S) : i # j => f[i] # f[j]
     /\ \A i, j \in 1..Cardinality(S) : i < j => f[i].date >= f[j].date}

\* Rule 1 (lines 433-450): the files beyond the count cutoff, except the active one.
MarkedByCount(sorted, lim, cur) ==
  IF lim.maxFiles > 0 /\ Len(sorted) > lim.maxFiles
  THEN {sorted[i].name : i \in {k \in (lim.maxFiles + 1)..Len(sorted) : sorted[k].path # cur}}
  ELSE {}

\* filesToKeep after rule 1.
KeptByCount(sorted, lim) ==
  IF lim.maxFiles > 0 /\ Len(sorted) > lim.maxFiles
  THEN SubSeq(sorted, 1, lim.maxFiles) ELSE sorted

\* A plausible slip: the age and size rules do not skip the active file.
SkipsNoFile(file, currentFileName) == FALSE

\* `if (file.name === currentFileName) return;` (line 458)
SkipsCurrent(file, currentFileName) == file.name = currentFileName

TooOld(file, lim) == lim.maxAgeDays > 0 /\ Ordinal(now) - file.date > lim.maxAgeDays

TooLarge(file, lim) == lim.maxSizeMB > 0 /\ OverSizeLimit(file.size, lim.maxSizeMB)

\* Rule 2 (lines 452-488) looks at the files rule 1 kept, except the active
\* one and those already marked.
Examined(kept, marked, cur) ==
  {kept[k] : k \in {i \in 1..Len(kept) : /\ ~SkipsCurrent(kept[i], FileNameOf(cur))
                                          /\ kept[i].name \notin marked}}

\* The age check (lines 465-475) and, for the files it lets pass, the size
\* check (lines 477-487).
MarkedByAge(kept, marked, lim, cur) ==
  {f.name : f \in {g \in Examined(kept, marked, cur) : TooOld(g, lim)}}

\* A plausible slip: the size check also made on the files the age check marked.
MarkedBySizeAfterAge(kept, marked, lim, cur) ==
  {f.name : f \in {g \in Examined(kept, marked, cur) : TooLarge(g, lim)}}

MarkedBySize(kept, marked, lim, cur) ==
  {f.name : f \in {g \in Examined(kept, marked, cur) : ~TooOld(g, lim) /\ TooLarge(g, lim)}}

\* Rule 2 (lines 452-488): age, then size, on the files rule 1 kept.
MarkedByAgeOrSize(kept, marked, lim, cur) ==
  MarkedByAge(kept, marked, lim, cur) \cup MarkedBySize(kept, marked, lim, cur)

\* filesToDelete for one order of the sorted files.
SelectForDeletion(sorted, lim, cur) ==
  LET marked == MarkedByCount(sorted, lim, cur)
  IN marked \cup MarkedByAgeOrSize(KeptByCount(sorted, lim), marked, lim, cur)

\* deleteLogFileInternal up to its await: the paths whose unlink is issued.
UnlinksIssued(selected, dir, cur) ==
  IF dir = NULL THEN {}
  ELSE {MkPath(dir, n) : n \in {m \in selected : MkPath(dir, m) # cur}}

(***************************************************************************)
(* fileManager.ts loggerInterface: the synchronous code between awaits.    *)
(***************************************************************************)

\* A filename that is not a log file's.
InvalidName == "notes.log"

\* filename.startsWith(LOG_FILE_PREFIX) && filename.endsWith(LOG_FILE_SUFFIX)
ValidLogName(name) == name \in DatedLogNames \cup {UndatedLogName}

\* dateB.localeCompare(dateA) on the part between prefix and suffix: dates
\* compare as their day numbers, and letters come after every digit.
DatePartRank(name) ==
  IF name = UndatedLogName THEN Ordinal(FutureLogDate) + 1 ELSE Ordinal(ParseNameDate(name))

\* The names sorted by their date part, newest first (lines 726-733).
SortNewestFirst(names) ==
  CHOOSE f \in [1..Cardinality(names) -> names] :
    /\ \A i, j \in 1..Cardinality(names) : i # j => f[i] # f[j]
    /\ \A i, j \in 1..Cardinality(names) :
         i < j => DatePartRank(f[i]) >= DatePartRank(f[j])

\* The names ls gives for a directory.
NamesIn(fs, dir) == {q.name : q \in {r \in DOMAIN fs : r.dir = dir}}

\* What readFile gives: the file's lines as text.
ContentOf(f) == [i \in 1..Len(f.lines) |-> [kind |-> f.lines[i].kind, id |-> f.lines[i].id]]

\* cleanupCurrentSession, its last statements (lines 982-986).
CleanupReset(w) ==
  Finish([w EXCEPT !.currentSessionLogPath = NoPath, !.isSessionInitialized = FALSE],
         "void", NULL)

\* deleteLogFileInternal resolves to `value`.
DeleteReturn(w, value) ==
  CASE w.me.dret = "K" -> CleanupReset([w EXCEPT !.currentSessionLogPath = w.me.saved])
    [] OTHER -> Finish(w, value, w.me.fate)

\* A plausible slip: deleteLogFileInternal without its test for the active file.
NoActiveGuard(w, path) == FALSE

\* `filePath === currentSessionLogPath` (line 536).
IsActiveFile(w, path) == path = w.currentSessionLogPath

\* deleteLogFileInternal(filename) up to its await (lines 519-541).
DeleteInternal(w, filename, dret) ==
  LET v == [w EXCEPT !.me.dret = dret]
      path == MkPath(w.logDirectoryPath, filename)
  IN IF w.logDirectoryPath = NULL \/ ~ValidLogName(filename) \/ IsActiveFile(w, path)
     THEN DeleteReturn(v, FALSE)
     ELSE [v EXCEPT !.me.pc = "D_unlink", !.me.name = filename, !.me.filePath = path]

\* A plausible slip: deleteAllLogs ends the session once the list is at hand.
DeleteAllEndsSession(w, list) == Finish(Invalidate(w), TRUE, NULL)

\* deleteAllLogs, after `await this.getLogFiles()` (lines 897-935).
DeleteAllAfterList(w, list) ==
  LET currentFileName == FileNameOf(w.currentSessionLogPath)
      targets == {list[i] : i \in {k \in 1..Len(list) : list[k] # currentFileName}}
      issued == {n \in targets : /\ w.logDirectoryPath # NULL
                                 /\ ValidLogName(n)
                                 /\ MkPath(w.logDirectoryPath, n) # w.currentSessionLogPath}
  IN IF Len(list) = 0 \/ (Len(list) = 1 /\ list[1] = currentFileName) \/ targets = {}
     THEN Finish(w, TRUE, NULL)
     ELSE IF issued = {} THEN Finish(w, FALSE, NULL)
     ELSE [w EXCEPT !.me.pc = "DA_unlink",
                    !.me.pending = {MkPath(w.logDirectoryPath, n) : n \in issued},
                    !.me.allOk = (issued = targets)]

\* getLogFiles resolves to `list`.
GetLogFilesReturn(w, list) ==
  CASE w.me.gret = "DA" -> DeleteAllAfterList(w, list)
    [] OTHER -> Finish(w, list, NULL)

\* getLogFiles: ls(logDirectoryPath) is issued (line 723).
GetLogFilesLs(w, gret) ==
  [w EXCEPT !.me.pc = "G_ls", !.me.gret = gret,
            !.me.filePath = MkPath(w.logDirectoryPath, NULL)]

\* getLogFiles up to its first await (lines 712-723).
GetLogFilesEnter(w, gret) ==
  IF w.logDirectoryPath = NULL
  THEN InitEnter([w EXCEPT !.me.gret = gret], "G1")
  ELSE GetLogFilesLs(w, gret)

\* readLogFile resolves to `value` (null or the content).
ReadReturn(w, value) ==
  CASE w.me.rret = "cur" -> Finish(w, IF value = <<>> THEN "" ELSE value, NULL)
    [] OTHER -> Finish(w, IF value = <<>> THEN NULL ELSE value, NULL)

\* A plausible slip: readLogFile has no catch, a failing primitive escapes.
ReadUncaught(w) == Uncaught(w)

\* The catch of readLogFile (lines 860-863): null is returned.
ReadCaught(w) == ReadReturn(w, <<>>)

\* readLogFile after the directory is known (lines 788-799).
ReadValidate(w) ==
  IF ~ValidLogName(w.me.name) THEN ReadReturn(w, <<>>)
  ELSE [w EXCEPT !.me.pc = "R_exists",
                 !.me.filePath = MkPath(w.logDirectoryPath, w.me.name)]

\* readLogFile(filename) up to its first await (lines 778-799).
ReadEnter(w, filename, rret) ==
  LET v == [w EXCEPT !.me.name = filename, !.me.rret = rret, !.me.asked = filename]
  IN IF w.logDirectoryPath = NULL THEN InitEnter(v, "R1") ELSE ReadValidate(v)

\* getCurrentSessionLog once the path is known (lines 759-767).
CurrentRead(w) == ReadEnter(w, FileNameOf(w.currentSessionLogPath), "cur")

\* getCurrentSessionLog up to its first await (lines 747-767).
CurrentEnter(w) ==
  IF w.currentSessionLogPath = NoPath THEN InitEnter(w, "C1") ELSE CurrentRead(w)

\* deleteLogFile(filename) up to its first await (lines 867-884).
DeleteEnter(w, filename) ==
  LET v == [w EXCEPT !.me.asked = filename]
  IN IF w.logDirectoryPath = NULL
     THEN InitEnter([v EXCEPT !.me.name = filename], "D1")
     ELSE DeleteInternal(v, filename, "top")

\* deleteAllLogs up to its first await (lines 887-897).
DeleteAllEnter(w) ==
  IF w.logDirectoryPath = NULL THEN InitEnter(w, "DA1") ELSE GetLogFilesEnter(w, "DA")

\* cleanupCurrentSession up to its first await (lines 944-960).
CleanupEnter(w) ==
  IF w.currentSessionLogPath # NoPath /\ w.logDirectoryPath # NULL
  THEN [w EXCEPT !.me.pc = "K_stat", !.me.filePath = w.currentSessionLogPath]
  ELSE CleanupReset(w)

\* initSessionLog resolves to `value`: the code of the caller after its await.
InitReturn(w, value) ==
  LET ready == w.isSessionInitialized /\ w.currentSessionLogPath # NoPath
                 /\ w.logDirectoryPath # NULL
      v == [w EXCEPT !.hist.trueReturned = @ \/ value,
                     !.hist.trueUnready = @ \/ (value /\ ~ready)]
      noDir == ~value \/ v.logDirectoryPath = NULL
  IN CASE v.me.ret = "W1" -> WriteAfterInit(v, value)
       [] v.me.ret = "W2" -> WriteAfterReinit(v, value)
       [] v.me.ret = "G1" ->
            IF noDir THEN GetLogFilesReturn(v, <<>>) ELSE GetLogFilesLs(v, v.me.gret)
       [] v.me.ret = "C1" ->
            IF ~value \/ v.currentSessionLogPath = NoPath THEN Finish(v, "", NULL)
            ELSE CurrentRead(v)
       [] v.me.ret = "R1" -> IF noDir THEN ReadReturn(v, <<>>) ELSE ReadValidate(v)
       [] v.me.ret = "D1" ->
            IF noDir THEN Finish(v, FALSE, NULL) ELSE DeleteInternal(v, v.me.name, "top")
       [] v.me.ret = "DA1" ->
            IF noDir THEN Finish(v, FALSE, NULL) ELSE GetLogFilesEnter(v, "DA")
       [] OTHER -> Finish(v, value, v.me.fate)

DateInit ==
  /\ now \in AllDates
  /\ ticks = 0
  /\ fname = NULL /\ genAt = NoDate
  /\ prevName = NULL /\ prevAt = NoDate
  /\ platform = "ios"
  /\ limits = DefaultLimits
  /\ isSessionInitialized = FALSE
  /\ logDirectoryPath = NULL
  /\ currentSessionLogPath = NoPath
  /\ initializationInProgress = FALSE
  /\ dirs = {} /\ files = <<>> /\ probes = {}
  /\ tasks = <<>> /\ sweeps = <<>>
  /\ faults = 0
  /\ budget = [tasks |-> 0, faults |-> 0]
  /\ hist = NoHist
  /\ AppIdle

\* A caller asks for the filename of the current window.
Generate ==
  /\ fname' = generateLogFilename(now)
  /\ genAt' = now
  /\ prevName' = fname
  /\ prevAt' = genAt
  /\ UNCHANGED <<now, ticks>>
  /\ UNCHANGED fmVars

\* Midnight passes.
Tick ==
  /\ ticks < MaxTicks
  /\ now' = NextDay(now)
  /\ ticks' = ticks + 1
  /\ UNCHANGED <<fname, genAt, prevName, prevAt>>
  /\ UNCHANGED fmVars

DateNext == Generate \/ Tick

SpecDate == DateInit /\ [][DateNext]_vars

(***************************************************************************)
(* fileManager.ts: the steps of the calls.  A step is the completion of    *)
(* the primitive a call awaits (ok: it succeeded) and the code up to the   *)
(* next await.                                                             *)
(***************************************************************************)


\* The module state and storage as one call sees them.
World(me) ==
  [isSessionInitialized |-> isSessionInitialized,
   logDirectoryPath |-> logDirectoryPath,
   currentSessionLogPath |-> currentSessionLogPath,
   initializationInProgress |-> initializationInProgress,
   dirs |-> dirs, files |-> files, probes |-> probes,
   sweeps |-> sweeps, hist |-> hist, me |-> me]

\* The outcomes a primitive can have: failures are counted up to the bound.
Outcomes == IF faults < budget.faults THEN BOOLEAN ELSE {TRUE}

\* The step of call t leaves the world w behind.
Commit(t, w, ok) ==
  /\ isSessionInitialized' = w.isSessionInitialized
  /\ logDirectoryPath' = w.logDirectoryPath
  /\ currentSessionLogPath' = w.currentSessionLogPath
  /\ initializationInProgress' = w.initializationInProgress
  /\ dirs' = w.dirs /\ files' = w.files /\ probes' = w.probes
  /\ sweeps' = w.sweeps /\ hist' = w.hist
  /\ tasks' = IF t > Len(tasks) THEN Append(tasks, w.me) ELSE [tasks EXCEPT ![t] = w.me]
  /\ faults' = IF ok THEN faults ELSE faults + 1
  /\ UNCHANGED <<dateVars, platform, limits, budget, appVars>>

\* The logs directory the directory loop is trying.
ProbedDir(w) == LogsPath(dirsToTry(platform)[w.me.dirIdx])

\* A fast check that never trusts the cached session.
FastCheckDistrusted(w, ok) == InitLock(Invalidate(w), w.me.ret)

\* Fast check, after `await exists(currentSessionLogPath)` (lines 127-153).
FastExistsDone(w, ok) ==
  IF ok /\ FileExists(w.files, w.me.filePath)
  THEN InitReturn([w EXCEPT !.me.fate = IF w.me.ret = "top" THEN "fast" ELSE @], TRUE)
  ELSE InitLock(Invalidate(w), w.me.ret)

\* The waiter, after its 250 ms (line 162).
WaitDone(w) ==
  InitReturn(w, w.isSessionInitialized /\ w.currentSessionLogPath # NoPath
                  /\ w.logDirectoryPath # NULL)

\* tryCreateDirectory (lines 51-80): exists, mkdir, write probe, unlink probe.
ProbeExistsDone(w, ok) ==
  IF ~ok THEN ProbeFailed(w)
  ELSE [w EXCEPT !.me.pc = IF ProbedDir(w) \in w.dirs THEN "T_write" ELSE "T_mkdir"]

ProbeMkdirDone(w, ok) ==
  IF ~ok THEN ProbeFailed(w)
  ELSE [w EXCEPT !.dirs = @ \cup {ProbedDir(w)}, !.me.pc = "T_write"]

ProbeWriteDone(w, ok) ==
  IF ~ok THEN ProbeFailed(w)
  ELSE [w EXCEPT !.probes = @ \cup {ProbedDir(w)}, !.me.pc = "T_unlink"]

ProbeUnlinkDone(w, ok) ==
  IF ~ok THEN ProbeFailed(w)
  ELSE InitUseDir([w EXCEPT !.probes = @ \ {ProbedDir(w)}], ProbedDir(w))

\* After `await exists(filePath)` (line 198).
SessionExistsDone(w, ok) ==
  IF ~ok THEN FileError(w)
  ELSE IF FileExists(w.files, w.me.filePath) THEN [w EXCEPT !.me.pc = "I_final"]
  ELSE [w EXCEPT !.me.pc = "A0_exists", !.me.aret = "create"]

\* appendToFile(filePath, ''): exists, then writeFile when missing; an error
\* falls through to the append attempt (lines 298-310).
CreateExistsDone(w, ok) ==
  IF ~ok THEN AppendIssue(w, "create", EmptyContent)
  ELSE IF FileExists(w.files, w.me.filePath) THEN AfterCreate(w)
  ELSE [w EXCEPT !.me.pc = "A0_write"]

CreateWriteDone(w, ok) ==
  IF ~ok THEN AppendIssue(w, "create", EmptyContent)
  ELSE AfterCreate([w EXCEPT !.files = PutFile(@, w.me.filePath, EmptyFile)])

\* What an append attempt did to the entry of a writeToFile call.
Landed(w, enc) ==
  [w EXCEPT !.files = AppendFile(@, w.me.filePath, w.me.content, enc),
            !.me.fate = IF w.me.aret = "entry" THEN "appended" ELSE @,
            !.me.wroteTo = IF w.me.aret = "entry" THEN FileNameOf(w.me.filePath) ELSE @]

Lost(w) ==
  [Invalidate(w) EXCEPT !.me.fate = IF w.me.aret = "entry" THEN "failed" ELSE @]

\* appendToFile, after the UTF-8 appendFile (lines 312-353).
AppendUtf8Done(w, ok) ==
  IF ok THEN AppendReturn(Landed(w, "utf8"))
  ELSE IF platform = "android" THEN [w EXCEPT !.me.pc = "A_b64"]
  ELSE AppendReturn(Lost(w))

\* appendToFile, after the base64 appendFile on Android.
AppendBase64Done(w, ok) ==
  IF ok THEN AppendReturn(Landed(w, "base64")) ELSE AppendReturn(Lost(w))

\* After the final `await exists(filePath)` (lines 207-227).
FinalExistsDone(w, ok) ==
  IF ok /\ FileExists(w.files, w.me.filePath) THEN InitSuccessPoint(w) ELSE FileError(w)

\* writeToFile, after `await exists(currentPath)` (lines 601-628) and its
\* outer catch (lines 651-663).
WriteExistsDone(w, ok) ==
  IF ~ok THEN Finish(Invalidate(w), "void", "failed")
  ELSE IF FileExists(w.files, w.me.filePath)
       THEN AppendIssue(w, "entry", Line("entry", w.me.arg))
       ELSE InitEnter([w EXCEPT !.isSessionInitialized = FALSE], "W2")

\* writeToFile, after `await stat(currentPath)` (lines 630-649).
WriteStatDone(w, ok) ==
  IF ok /\ FileExists(w.files, w.me.filePath)
        /\ OverSizeLimit(w.files[w.me.filePath].size, limits.maxSizeMB)
  THEN Finish(Invalidate(w), "void", w.me.fate)
  ELSE Finish(w, "void", w.me.fate)

\* A call of writeToFile is issued: it runs up to its first await.
StartWrite ==
  /\ Len(tasks) < budget.tasks
  /\ Commit(Len(tasks) + 1, WriteEnter(World(NewTask("write", Len(tasks) + 1))), TRUE)

\* A call of initSessionLog is issued by the application.
StartInit ==
  /\ Len(tasks) < budget.tasks
  /\ Commit(Len(tasks) + 1, InitEnter(World(NewTask("init", Len(tasks) + 1)), "top"), TRUE)

AwaitFastExists(t) ==
  /\ tasks[t].pc = "I_fast"
  /\ \E ok \in Outcomes : Commit(t, FastExistsDone(World(tasks[t]), ok), ok)

AwaitInitWait(t) ==
  /\ tasks[t].pc = "I_wait"
  /\ Commit(t, WaitDone(World(tasks[t])), TRUE)

AwaitProbeExists(t) ==
  /\ tasks[t].pc = "T_exists"
  /\ \E ok \in Outcomes : Commit(t, ProbeExistsDone(World(tasks[t]), ok), ok)

AwaitProbeMkdir(t) ==
  /\ tasks[t].pc = "T_mkdir"
  /\ \E ok \in Outcomes : Commit(t, ProbeMkdirDone(World(tasks[t]), ok), ok)

AwaitProbeWrite(t) ==
  /\ tasks[t].pc = "T_write"
  /\ \E ok \in Outcomes : Commit(t, ProbeWriteDone(World(tasks[t]), ok), ok)

AwaitProbeUnlink(t) ==
  /\ tasks[t].pc = "T_unlink"
  /\ \E ok \in Outcomes : Commit(t, ProbeUnlinkDone(World(tasks[t]), ok), ok)

AwaitSessionExists(t) ==
  /\ tasks[t].pc = "I_exists"
  /\ \E ok \in Outcomes : Commit(t, SessionExistsDone(World(tasks[t]), ok), ok)

AwaitCreateExists(t) ==
  /\ tasks[t].pc = "A0_exists"
  /\ \E ok \in Outcomes : Commit(t, CreateExistsDone(World(tasks[t]), ok), ok)

AwaitCreateWrite(t) ==
  /\ tasks[t].pc = "A0_write"
  /\ \E ok \in Outcomes : Commit(t, CreateWriteDone(World(tasks[t]), ok), ok)

AwaitAppendUtf8(t) ==
  /\ tasks[t].pc = "A_utf8"
  /\ \E ok \in Outcomes : Commit(t, AppendUtf8Done(World(tasks[t]), ok), ok)

AwaitAppendBase64(t) ==
  /\ tasks[t].pc = "A_b64"
  /\ \E ok \in Outcomes : Commit(t, AppendBase64Done(World(tasks[t]), ok), ok)

AwaitFinalExists(t) ==
  /\ tasks[t].pc = "I_final"
  /\ \E ok \in Outcomes : Commit(t, FinalExistsDone(World(tasks[t]), ok), ok)

AwaitWriteExists(t) ==
  /\ tasks[t].pc = "W_exists"
  /\ \E ok \in Outcomes : Commit(t, WriteExistsDone(World(tasks[t]), ok), ok)

AwaitWriteStat(t) ==
  /\ tasks[t].pc = "W_stat"
  /\ \E ok \in Outcomes : Commit(t, WriteStatDone(World(tasks[t]), ok), ok)

(***************************************************************************)
(* The steps of a retention sweep (cleanupOldLogs running in the           *)
(* background).                                                            *)
(***************************************************************************)

RemoveAt(seq, i) == SubSeq(seq, 1, i - 1) \o SubSeq(seq, i + 1, Len(seq))

\* The sweep i goes on as sw, or ends when sw is "done".
SweepCommit(i, sw, failures) ==
  /\ sweeps' = IF sw.pc = "done" THEN RemoveAt(sweeps, i) ELSE [sweeps EXCEPT ![i] = sw]
  /\ faults' = faults + failures
  /\ UNCHANGED <<dateVars, platform, limits, budget, sessVars, dirs, probes, tasks, appVars>>

\* The history of sweeps (hist.cleanSweep, the eval of a sweep) is kept in the
\* runs where the application calls cleanupOldLogs() itself.
SweepTraced == \E t \in 1..Len(tasks) : tasks[t].op = "cleanupOldLogs"

\* After `await ls(logDirectoryPath)` (lines 385-396): the names are filtered
\* and stat is issued on `${logDirectoryPath}/${name}` for each of them.
SweepLs(i) ==
  /\ sweeps[i].pc = "S_ls"
  /\ \E ok \in Outcomes :
       LET names == {n \in NamesIn(files, sweeps[i].dir) : ValidLogName(n)}
           listed == ok /\ sweeps[i].dir \in dirs
       IN /\ SweepCommit(i,
               IF ~listed \/ names = {}
               THEN [sweeps[i] EXCEPT !.pc = "done"]
               ELSE [sweeps[i] EXCEPT !.pc = "S_stat", !.names = names,
                                      !.dir = logDirectoryPath],
               IF ok THEN 0 ELSE 1)
          /\ hist' = [hist EXCEPT !.cleanSweep = @ \/ (SweepTraced /\ listed /\ names = {})]
  /\ UNCHANGED files

\* After the stats (lines 419-497): the files are sorted, the rules applied
\* and the deletions issued; `bad` are the files whose stat failed.
SweepStat(i) ==
  /\ sweeps[i].pc = "S_stat"
  /\ \E bad \in {b \in SUBSET sweeps[i].names : Cardinality(b) <= budget.faults - faults} :
       LET detailed == DetailedFiles(files, sweeps[i].dir, sweeps[i].names, bad)
           cur == currentSessionLogPath
       IN \E sorted \in SortedOrders(detailed) :
            LET selected == SelectForDeletion(sorted, limits, cur)
                issued == UnlinksIssued(selected, logDirectoryPath, cur)
                beyond == {sorted[k] : k \in {j \in 1..Len(sorted) :
                                                limits.maxFiles > 0 /\ j > limits.maxFiles}}
                active == {f \in detailed : f.path = cur}
                marked == MarkedByCount(sorted, limits, cur)
                kept == KeptByCount(sorted, limits)
                eval == IF SweepTraced
                        THEN [cur |-> cur, sorted |-> sorted, bad |-> bad, byCount |-> marked,
                              byAge |-> MarkedByAge(kept, marked, limits, cur),
                              bySize |-> MarkedBySize(kept, marked, limits, cur)]
                        ELSE NoEval
            IN /\ SweepCommit(i,
                    IF issued = {} THEN [sweeps[i] EXCEPT !.pc = "done"]
                    ELSE [sweeps[i] EXCEPT !.pc = "S_unlink", !.pending = issued,
                                           !.eval = eval,
                                           !.failed = SweepTraced /\ bad # {}],
                    Cardinality(bad))
               /\ hist' = [hist EXCEPT
                    !.cleanSweep = @ \/ (SweepTraced /\ issued = {} /\ bad = {}),
                    !.swept = @ \/ active # {},
                    !.spared = @ \/ \E f \in active :
                                      /\ f \in beyond \/ TooOld(f, limits) \/ TooLarge(f, limits)
                                      /\ f.name \notin selected,
                    !.picked = @ \/ \E f \in active : f.name \in selected,
                    !.hit = @ \/ cur \in issued]
  /\ UNCHANGED files

\* After `await unlink(filePath)` of one deletion (lines 541-562).
SweepUnlink(i) ==
  /\ sweeps[i].pc = "S_unlink"
  /\ \E path \in sweeps[i].pending : \E ok \in Outcomes :
       /\ files' = IF ok /\ FileExists(files, path) THEN RemoveFile(files, path) ELSE files
       /\ SweepCommit(i,
            IF sweeps[i].pending = {path} THEN [sweeps[i] EXCEPT !.pc = "done"]
            ELSE [sweeps[i] EXCEPT !.pending = @ \ {path},
                                   !.failed = @ \/ (SweepTraced /\ ~ok)],
            IF ok THEN 0 ELSE 1)
       /\ hist' = [hist EXCEPT !.cleanSweep =
                     @ \/ (SweepTraced /\ sweeps[i].pending = {path} /\ ok /\ ~sweeps[i].failed)]

\* Midnight passes while the application runs.
Midnight ==
  /\ ticks < MaxMidnights
  /\ now' = NextDay(now)
  /\ ticks' = ticks + 1
  /\ UNCHANGED <<fname, genAt, prevName, prevAt>>
  /\ UNCHANGED fmVars

(***************************************************************************)
(* The session manager at start-up: nothing initialized, and the storage   *)
(* left behind by earlier runs of the application.                         *)
(***************************************************************************)

TightMaxFiles == 1   \* a build that keeps a single log file

TightLimits == [DefaultLimits EXCEPT !.maxFiles = TightMaxFiles]

\* The size at which a file is exactly at the size limit.
FullBytes == MAX_LOG_SIZE_MB * 1024 * 1024

\* The builds and the storage left by earlier runs, in the preferred directory
\* of the platform: nothing; the file of the current window; that file at the
\* size limit beside an old file; that file over the limit, beside an old
\* file and a file dated later, in a build that keeps one file.
InitialSetups(os) ==
  LET dir == LogsPath(dirsToTry(os)[1])
      cur == MkPath(dir, generateLogFilename(StartDate))
      old == MkPath(dir, LogName(OldLogDate))
      fut == MkPath(dir, LogName(FutureLogDate))
      small == [size |-> SmallBytes, lines |-> <<Line("earlier", 0)>>]
  IN {[limits |-> DefaultLimits, dirs |-> {}, files |-> <<>>],
      [limits |-> DefaultLimits, dirs |-> {dir}, files |-> PutFile(<<>>, cur, small)],
      [limits |-> DefaultLimits, dirs |-> {dir},
       files |-> PutFile(PutFile(<<>>, cur, [small EXCEPT !.size = FullBytes]), old, small)],
      [limits |-> TightLimits, dirs |-> {dir},
       files |-> PutFile(PutFile(PutFile(<<>>, cur, [small EXCEPT !.size = FullBytes + EntryBytes]),
                                 old, small), fut, small)]}

WriteInit ==
  /\ now = StartDate
  /\ ticks = 0
  /\ fname = NULL /\ genAt = NoDate
  /\ prevName = NULL /\ prevAt = NoDate
  /\ platform \in Platforms
  /\ isSessionInitialized = FALSE
  /\ logDirectoryPath = NULL
  /\ currentSessionLogPath = NoPath
  /\ initializationInProgress = FALSE
  /\ \E st \in InitialSetups(platform) :
       limits = st.limits /\ dirs = st.dirs /\ files = st.files
  /\ probes = {}
  /\ tasks = <<>> /\ sweeps = <<>>
  /\ faults = 0
  /\ budget = [tasks |-> MaxTasks, faults |-> MaxFaults]
  /\ hist = NoHist
  /\ AppIdle

WriteNext ==
  \/ StartWrite
  \/ StartInit
  \/ Midnight
  \/ \E t \in 1..Len(tasks) : AwaitFastExists(t)
  \/ \E t \in 1..Len(tasks) : AwaitInitWait(t)
  \/ \E t \in 1..Len(tasks) : AwaitProbeExists(t)
  \/ \E t \in 1..Len(tasks) : AwaitProbeMkdir(t)
  \/ \E t \in 1..Len(tasks) : AwaitProbeWrite(t)
  \/ \E t \in 1..Len(tasks) : AwaitProbeUnlink(t)
  \/ \E t \in 1..Len(tasks) : AwaitSessionExists(t)
  \/ \E t \in 1..Len(tasks) : AwaitCreateExists(t)
  \/ \E t \in 1..Len(tasks) : AwaitCreateWrite(t)
  \/ \E t \in 1..Len(tasks) : AwaitAppendUtf8(t)
  \/ \E t \in 1..Len(tasks) : AwaitAppendBase64(t)
  \/ \E t \in 1..Len(tasks) : AwaitFinalExists(t)
  \/ \E t \in 1..Len(tasks) : AwaitWriteExists(t)
  \/ \E t \in 1..Len(tasks) : AwaitWriteStat(t)
  \/ \E i \in 1..Len(sweeps) : SweepLs(i)
  \/ \E i \in 1..Len(sweeps) : SweepStat(i)
  \/ \E i \in 1..Len(sweeps) : SweepUnlink(i)

SpecWrite == WriteInit /\ [][WriteNext]_vars

(***************************************************************************)
(* cleanupOldLogs called on a ready session (it is exported), over the     *)
(* directories earlier runs can leave behind and every kind of limits.     *)
(***************************************************************************)

\* Bounds of a run of cleanupOldLogs.
SweepMaxFaults == 1
SweepMaxCalls == 1
SomeMaxFiles == 2   \* a count limit smaller than the directories at hand

\* The builds: each limit disabled or enabled, the count limit also tight.
SweepLimits ==
  {[maxFiles |-> c, maxAgeDays |-> a, maxSizeMB |-> z] :
     c \in {0, TightMaxFiles, SomeMaxFiles}, a \in {0, MAX_LOG_AGE_DAYS},
     z \in {0, MAX_LOG_SIZE_MB}}

\* The log files a directory can hold: the windows up to the start, an old
\* file, a file dated later and a file without a date.
SweepNames ==
  {LogName(d) : d \in RecentLogDates \cup {OldLogDate, FutureLogDate, getBaseLogDate(StartDate)}}
    \cup {UndatedLogName}

\* The storage with the files `names`, of which `big` is over the size limit.
SweepStore(dir, names, big) ==
  [q \in {MkPath(dir, n) : n \in names} |->
     [size |-> IF q.name = big THEN FullBytes + EntryBytes ELSE SmallBytes,
      lines |-> <<Line("earlier", 0)>>]]

SweepInit ==
  /\ now = StartDate
  /\ ticks = 0
  /\ fname = NULL /\ genAt = NoDate
  /\ prevName = NULL /\ prevAt = NoDate
  /\ platform = "android"
  /\ limits \in SweepLimits
  /\ initializationInProgress = FALSE
  /\ logDirectoryPath = LogsPath(dirsToTry(platform)[1])
  /\ dirs = {logDirectoryPath}
  /\ \E names \in SUBSET SweepNames : \E big \in names \cup {NULL} :
       files = SweepStore(logDirectoryPath, names, big)
  /\ \/ isSessionInitialized = FALSE /\ currentSessionLogPath = NoPath
     \/ /\ isSessionInitialized = TRUE
        /\ currentSessionLogPath = MkPath(logDirectoryPath, generateLogFilename(now))
        /\ FileExists(files, currentSessionLogPath)
  /\ probes = {}
  /\ tasks = <<>> /\ sweeps = <<>>
  /\ faults = 0
  /\ budget = [tasks |-> SweepMaxCalls, faults |-> SweepMaxFaults]
  /\ hist = NoHist
  /\ AppIdle

\* cleanupOldLogs() is called: a task stands for the call, the sweep runs on.
StartCleanupOldLogs ==
  /\ Len(tasks) < budget.tasks
  /\ Commit(Len(tasks) + 1,
            Finish(SweepSpawn(World(NewTask("cleanupOldLogs", Len(tasks) + 1))), "void", NULL),
            TRUE)

SweepNext ==
  \/ StartCleanupOldLogs
  \/ \E i \in 1..Len(sweeps) : SweepLs(i)
  \/ \E i \in 1..Len(sweeps) : SweepStat(i)
  \/ \E i \in 1..Len(sweeps) : SweepUnlink(i)

SpecSweep == SweepInit /\ [][SweepNext]_vars

(***************************************************************************)
(* fileManager.ts loggerInterface: the steps of the calls.                 *)
(***************************************************************************)

\* getLogFiles, after `await ls(logDirectoryPath)` and its catch (lines 723-743).
GetLsDone(w, ok) ==
  IF ok /\ w.me.filePath.dir \in w.dirs
  THEN GetLogFilesReturn(w, SortNewestFirst({n \in NamesIn(w.files, w.me.filePath.dir) :
                                               ValidLogName(n)}))
  ELSE GetLogFilesReturn(w, <<>>)

\* readLogFile, after `await exists(filePath)` (lines 802-805).
ReadExistsDone(w, ok) ==
  IF ~ok THEN ReadCaught(w)
  ELSE IF FileExists(w.files, w.me.filePath) THEN [w EXCEPT !.me.pc = "R_stat"]
  ELSE ReadReturn(w, <<>>)

\* readLogFile, after `await stat(filePath)` (lines 807-811).
ReadStatDone(w, ok) ==
  IF ~ok \/ ~FileExists(w.files, w.me.filePath) THEN ReadCaught(w)
  ELSE IF w.files[w.me.filePath].size = 0 THEN ReadReturn(w, <<>>)
  ELSE [w EXCEPT !.me.pc = "R_utf8"]

\* readLogFile, after the UTF-8 readFile (lines 815-859).
ReadUtf8Done(w, ok) ==
  IF ok /\ FileExists(w.files, w.me.filePath)
  THEN ReadReturn(w, ContentOf(w.files[w.me.filePath]))
  ELSE IF platform = "android" THEN [w EXCEPT !.me.pc = "R_b64"]
  ELSE ReadCaught(w)

\* readLogFile, after the base64 readFile on Android (lines 824-840).
ReadBase64Done(w, ok) ==
  IF ok /\ FileExists(w.files, w.me.filePath)
  THEN ReadReturn(w, ContentOf(w.files[w.me.filePath]))
  ELSE ReadReturn(w, <<>>)

\* What `await unlink(path)` does and deleteLogFileInternal makes of it (lines
\* 541-562): true when the file was removed or was already missing.
UnlinkStorage(fs, path, ok) == IF ok /\ FileExists(fs, path) THEN RemoveFile(fs, path) ELSE fs

\* A plausible slip: a rejected unlink is a failure whatever its message.
UnlinkStrict(fs, path, ok) == ok

\* The value deleteLogFileInternal resolves to after the unlink (lines 541-562).
UnlinkResult(fs, path, ok) == ok \/ ~FileExists(fs, path)

\* deleteLogFileInternal, after `await unlink(filePath)`.
DeleteUnlinkDone(w, ok) ==
  DeleteReturn([w EXCEPT !.files = UnlinkStorage(@, w.me.filePath, ok),
                         !.me.fate = IF FileExists(w.files, w.me.filePath)
                                     THEN "found" ELSE "missing"],
               UnlinkResult(w.files, w.me.filePath, ok))

\* deleteAllLogs, after one of its unlinks; after the last, Promise.all resolves.
DeleteAllUnlinkDone(w, path, ok) ==
  LET v == [w EXCEPT !.files = UnlinkStorage(@, path, ok),
                     !.me.pending = @ \ {path},
                     !.me.allOk = @ /\ UnlinkResult(w.files, path, ok)]
  IN IF v.me.pending = {} THEN Finish(v, v.me.allOk, NULL) ELSE v

\* cleanupCurrentSession, after `await stat(currentSessionLogPath)` (lines 949-980).
CleanupStatDone(w, ok) ==
  IF ~ok \/ ~FileExists(w.files, w.me.filePath) THEN CleanupReset(w)
  ELSE IF w.files[w.me.filePath].size = 0
       THEN DeleteInternal([w EXCEPT !.me.saved = w.currentSessionLogPath,
                                     !.currentSessionLogPath = NoPath],
                           FileNameOf(w.me.filePath), "K")
       ELSE CleanupReset(w)

\* The filenames the application passes to readLogFile and deleteLogFile.
FileNames == {generateLogFilename(StartDate), LogName(OldLogDate), InvalidName}

StartGetLogFiles ==
  /\ Len(tasks) < budget.tasks
  /\ Commit(Len(tasks) + 1,
            GetLogFilesEnter(World(NewTask("getLogFiles", Len(tasks) + 1)), "top"), TRUE)

StartGetCurrentSessionLog ==
  /\ Len(tasks) < budget.tasks
  /\ Commit(Len(tasks) + 1,
            CurrentEnter(World(NewTask("getCurrentSessionLog", Len(tasks) + 1))), TRUE)

StartReadLogFile ==
  /\ Len(tasks) < budget.tasks
  /\ \E filename \in FileNames :
       Commit(Len(tasks) + 1,
              ReadEnter(World(NewTask("readLogFile", Len(tasks) + 1)), filename, "top"), TRUE)

StartDeleteLogFile ==
  /\ Len(tasks) < budget.tasks
  /\ \E filename \in FileNames :
       Commit(Len(tasks) + 1,
              DeleteEnter(World(NewTask("deleteLogFile", Len(tasks) + 1)), filename), TRUE)

StartDeleteAllLogs ==
  /\ Len(tasks) < budget.tasks
  /\ Commit(Len(tasks) + 1,
            DeleteAllEnter(World(NewTask("deleteAllLogs", Len(tasks) + 1))), TRUE)

StartCleanupCurrentSession ==
  /\ Len(tasks) < budget.tasks
  /\ Commit(Len(tasks) + 1,
            CleanupEnter(World(NewTask("cleanupCurrentSession", Len(tasks) + 1))), TRUE)

AwaitGetLs(t) ==
  /\ tasks[t].pc = "G_ls"
  /\ \E ok \in Outcomes : Commit(t, GetLsDone(World(tasks[t]), ok), ok)

AwaitReadExists(t) ==
  /\ tasks[t].pc = "R_exists"
  /\ \E ok \in Outcomes : Commit(t, ReadExistsDone(World(tasks[t]), ok), ok)

AwaitReadStat(t) ==
  /\ tasks[t].pc = "R_stat"
  /\ \E ok \in Outcomes : Commit(t, ReadStatDone(World(tasks[t]), ok), ok)

AwaitReadUtf8(t) ==
  /\ tasks[t].pc = "R_utf8"
  /\ \E ok \in Outcomes : Commit(t, ReadUtf8Done(World(tasks[t]), ok), ok)

AwaitReadBase64(t) ==
  /\ tasks[t].pc = "R_b64"
  /\ \E ok \in Outcomes : Commit(t, ReadBase64Done(World(tasks[t]), ok), ok)

AwaitDeleteUnlink(t) ==
  /\ tasks[t].pc = "D_unlink"
  /\ \E ok \in Outcomes : Commit(t, DeleteUnlinkDone(World(tasks[t]), ok), ok)

AwaitDeleteAllUnlink(t) ==
  /\ tasks[t].pc = "DA_unlink"
  /\ \E path \in tasks[t].pending : \E ok \in Outcomes :
       Commit(t, DeleteAllUnlinkDone(World(tasks[t]), path, ok), ok)

AwaitCleanupStat(t) ==
  /\ tasks[t].pc = "K_stat"
  /\ \E ok \in Outcomes : Commit(t, CleanupStatDone(World(tasks[t]), ok), ok)

\* Bounds of a run of the loggerInterface.
FacadeMaxTasks == 2
FacadeMaxFaults == 2

\* A build with every retention limit disabled: no sweep and no size check.
DisabledLimits == [maxFiles |-> 0, maxAgeDays |-> 0, maxSizeMB |-> 0]

\* The storage a run of the loggerInterface starts on: as above, or the file
\* of the current window beside an undated log file and a file that is no log.
FacadeSetups(os) ==
  LET dir == LogsPath(dirsToTry(os)[1])
      small == [size |-> SmallBytes, lines |-> <<Line("earlier", 0)>>]
      names == {generateLogFilename(StartDate), LogName(OldLogDate), UndatedLogName, InvalidName}
  IN InitialSetups(os) \cup
     {[limits |-> DisabledLimits, dirs |-> {dir},
       files |-> [q \in {MkPath(dir, n) : n \in names} |-> small]]}

FacadeInit ==
  /\ now = StartDate
  /\ ticks = 0
  /\ fname = NULL /\ genAt = NoDate
  /\ prevName = NULL /\ prevAt = NoDate
  /\ platform \in Platforms
  /\ limits = DisabledLimits
  /\ isSessionInitialized = FALSE
  /\ logDirectoryPath = NULL
  /\ currentSessionLogPath = NoPath
  /\ initializationInProgress = FALSE
  /\ \E st \in FacadeSetups(platform) : dirs = st.dirs /\ files = st.files
  /\ probes = {}
  /\ tasks = <<>> /\ sweeps = <<>>
  /\ faults = 0
  /\ budget = [tasks |-> FacadeMaxTasks, faults |-> FacadeMaxFaults]
  /\ hist = NoHist
  /\ AppIdle

FacadeNext ==
  \/ StartWrite
  \/ StartInit
  \/ StartGetLogFiles
  \/ StartGetCurrentSessionLog
  \/ StartReadLogFile
  \/ StartDeleteLogFile
  \/ StartDeleteAllLogs
  \/ StartCleanupCurrentSession
  \/ \E t \in 1..Len(tasks) : AwaitFastExists(t)
  \/ \E t \in 1..Len(tasks) : AwaitInitWait(t)
  \/ \E t \in 1..Len(tasks) : AwaitProbeExists(t)
  \/ \E t \in 1..Len(tasks) : AwaitProbeMkdir(t)
  \/ \E t \in 1..Len(tasks) : AwaitProbeWrite(t)
  \/ \E t \in 1..Len(tasks) : AwaitProbeUnlink(t)
  \/ \E t \in 1..Len(tasks) : AwaitSessionExists(t)
  \/ \E t \in 1..Len(tasks) : AwaitCreateExists(t)
  \/ \E t \in 1..Len(tasks) : AwaitCreateWrite(t)
  \/ \E t \in 1..Len(tasks) : AwaitAppendUtf8(t)
  \/ \E t \in 1..Len(tasks) : AwaitAppendBase64(t)
  \/ \E t \in 1..Len(tasks) : AwaitFinalExists(t)
  \/ \E t \in 1..Len(tasks) : AwaitWriteExists(t)
  \/ \E t \in 1..Len(tasks) : AwaitGetLs(t)
  \/ \E t \in 1..Len(tasks) : AwaitReadExists(t)
  \/ \E t \in 1..Len(tasks) : AwaitReadStat(t)
  \/ \E t \in 1..Len(tasks) : AwaitReadUtf8(t)
  \/ \E t \in 1..Len(tasks) : AwaitReadBase64(t)
  \/ \E t \in 1..Len(tasks) : AwaitDeleteUnlink(t)
  \/ \E t \in 1..Len(tasks) : AwaitDeleteAllUnlink(t)
  \/ \E t \in 1..Len(tasks) : AwaitCleanupStat(t)

SpecFacade == FacadeInit /\ [][FacadeNext]_vars

(***************************************************************************)
(* logs.js, the legacy session manager: initSessionLog.  It keeps its      *)
(* state in isSessionInitialized, LOG_DIR (here logDirectoryPath),         *)
(* currentSessionLogPath and initializationInProgress.                     *)
(***************************************************************************)

LEGACY_MAX_LOG_FILES == 50
LEGACY_MAX_LOG_SIZE_MB == 10
LEGACY_MAX_AGE_DAYS == 30

\* Bounds of a run of the legacy session manager.
LegacyMaxTasks == 2
LegacyMaxFaults == 1

\* FALLBACK_DIRS of logs.js.
LegacyDirs(os) ==
  IF os = "ios" THEN <<"Documents", "Caches">> ELSE <<"Caches", "Documents", "MainBundle">>

LegacyProbedDir(w) == LogsPath(LegacyDirs(platform)[w.me.dirIdx])

\* A return from inside the try: the finally block releases the lock.
LegacyFinish(w, value) ==
  Finish([w EXCEPT !.initializationInProgress = FALSE], value, NULL)

\* `continue`: the next directory, or `return false` after the last.
LegacyNextDir(w) ==
  IF w.me.dirIdx < Len(LegacyDirs(platform))
  THEN [w EXCEPT !.me.dirIdx = @ + 1, !.me.pc = "L_texists"]
  ELSE LegacyFinish(w, FALSE)

\* `initializationInProgress = true` and the first directory is tried.
LegacyFullInit(w) ==
  [w EXCEPT !.initializationInProgress = TRUE, !.me.dirIdx = 1, !.me.pc = "L_texists"]

\* The lock check: a caller that finds an initialization running waits.
LegacyLock(w) ==
  IF w.initializationInProgress THEN [w EXCEPT !.me.pc = "L_wait"] ELSE LegacyFullInit(w)

\* initSessionLog of logs.js up to its first await.
LegacyEnter(w) ==
  IF w.isSessionInitialized /\ w.currentSessionLogPath # NoPath
  THEN [w EXCEPT !.me.pc = "L_fast", !.me.filePath = w.currentSessionLogPath]
  ELSE LegacyLock(w)

\* After `await exists(currentSessionLogPath)`, which no try encloses.
LegacyFastDone(w, ok) ==
  IF ~ok THEN Uncaught(w)
  ELSE IF /\ FileExists(w.files, w.me.filePath)
          /\ w.currentSessionLogPath # NoPath
          /\ FileNameOf(w.currentSessionLogPath) = generateLogFilename(now)
       THEN Finish(w, TRUE, NULL)
       ELSE LegacyLock(Invalidate(w))

\* After the 500 ms wait: true when the session is initialized; otherwise the
\* code goes on to the full initialization.
LegacyWaitDone(w) ==
  IF w.isSessionInitialized /\ w.currentSessionLogPath # NoPath
  THEN Finish(w, TRUE, NULL)
  ELSE LegacyFullInit(w)

\* tryCreateDirectory returned logsPath: exists(filePath) is issued.
LegacyUseDir(w) ==
  [w EXCEPT !.me.filePath = MkPath(LegacyProbedDir(w), generateLogFilename(now)),
            !.me.pc = "L_exists"]

\* tryCreateDirectory of logs.js: the probe is written only to a new directory.
LegacyProbeExistsDone(w, ok) ==
  IF ~ok THEN LegacyNextDir(w)
  ELSE IF LegacyProbedDir(w) \in w.dirs THEN LegacyUseDir(w)
  ELSE [w EXCEPT !.me.pc = "L_tmkdir"]

LegacyProbeMkdirDone(w, ok) ==
  IF ~ok THEN LegacyNextDir(w)
  ELSE [w EXCEPT !.dirs = @ \cup {LegacyProbedDir(w)}, !.me.pc = "L_twrite"]

LegacyProbeWriteDone(w, ok) ==
  IF ~ok THEN LegacyNextDir(w)
  ELSE [w EXCEPT !.probes = @ \cup {LegacyProbedDir(w)}, !.me.pc = "L_tunlink"]

LegacyProbeUnlinkDone(w, ok) ==
  IF ~ok THEN LegacyNextDir(w)
  ELSE LegacyUseDir([w EXCEPT !.probes = @ \ {LegacyProbedDir(w)}])

LegacySessionExistsDone(w, ok) ==
  IF ~ok THEN LegacyNextDir(w)
  ELSE IF FileExists(w.files, w.me.filePath)
       THEN [w EXCEPT !.me.createdNewFile = FALSE, !.me.pc = "L_final"]
       ELSE [w EXCEPT !.me.createdNewFile = TRUE, !.me.pc = "L_create"]

LegacyCreateDone(w, ok) ==
  IF ~ok THEN LegacyNextDir(w)
  ELSE [w EXCEPT !.files = PutFile(@, w.me.filePath, EmptyFile), !.me.pc = "L_final"]

\* After the second exists: the globals are set and the marker is appended.
LegacyFinalDone(w, ok) ==
  IF ok /\ FileExists(w.files, w.me.filePath)
  THEN [w EXCEPT !.logDirectoryPath = w.me.filePath.dir,
                 !.currentSessionLogPath = w.me.filePath,
                 !.isSessionInitialized = TRUE,
                 !.me.content = Line(IF w.me.createdNewFile THEN "new" ELSE "resumed", w.me.arg),
                 !.me.pc = "L_marker"]
  ELSE LegacyNextDir(w)

LegacyMarkerDone(w, ok) ==
  IF ~ok THEN LegacyNextDir(w)
  ELSE [w EXCEPT !.files = AppendFile(@, w.me.filePath, w.me.content, "utf8"),
                 !.me.pc = "L_cleanup"]

\* What `await cleanupOldLogs()` of logs.js leaves on storage when its
\* primitives succeed (taken as one step): the empty files, the files beyond
\* the count and the files too large or too old are deleted, never the file
\* at currentSessionLogPath nor, by size or age, the file of the current window.
LegacyCleanupStorage(fs, dir, cur) ==
  LET inDir == {q \in DOMAIN fs : q.dir = dir}
      valid == {q \in inDir : fs[q].size > 0}
      newer(q) == {r \in valid : Ordinal(ParseNameDate(r.name)) > Ordinal(ParseNameDate(q.name))}
      beyond == {q \in valid : Cardinality(newer(q)) >= LEGACY_MAX_LOG_FILES}
      ruled == {q \in valid :
                  /\ q.name # generateLogFilename(now)
                  /\ \/ OverSizeLimit(fs[q].size, LEGACY_MAX_LOG_SIZE_MB)
                     \/ Ordinal(now) - Ordinal(ParseNameDate(q.name)) > LEGACY_MAX_AGE_DAYS}
      doomed == ((inDir \ valid) \cup beyond \cup ruled) \ {cur}
  IN [q \in DOMAIN fs \ doomed |-> fs[q]]

\* After `await cleanupOldLogs()` (which catches its own errors): return true.
LegacyCleanupDone(w, ok) ==
  LegacyFinish([w EXCEPT !.files = IF ok THEN LegacyCleanupStorage(@, w.logDirectoryPath,
                                                                   w.currentSessionLogPath)
                                   ELSE @], TRUE)

\* initSessionLog of logs.js is called: at module load, or by a writer.
StartLegacyInit ==
  /\ Len(tasks) < budget.tasks
  /\ Commit(Len(tasks) + 1, LegacyEnter(World(NewTask("legacyInit", Len(tasks) + 1))), TRUE)

AwaitLegacyFast(t) ==
  /\ tasks[t].pc = "L_fast"
  /\ \E ok \in Outcomes : Commit(t, LegacyFastDone(World(tasks[t]), ok), ok)

AwaitLegacyWait(t) ==
  /\ tasks[t].pc = "L_wait"
  /\ Commit(t, LegacyWaitDone(World(tasks[t])), TRUE)

AwaitLegacyProbeExists(t) ==
  /\ tasks[t].pc = "L_texists"
  /\ \E ok \in Outcomes : Commit(t, LegacyProbeExistsDone(World(tasks[t]), ok), ok)

AwaitLegacyProbeMkdir(t) ==
  /\ tasks[t].pc = "L_tmkdir"
  /\ \E ok \in Outcomes : Commit(t, LegacyProbeMkdirDone(World(tasks[t]), ok), ok)

AwaitLegacyProbeWrite(t) ==
  /\ tasks[t].pc = "L_twrite"
  /\ \E ok \in Outcomes : Commit(t, LegacyProbeWriteDone(World(tasks[t]), ok), ok)

AwaitLegacyProbeUnlink(t) ==
  /\ tasks[t].pc = "L_tunlink"
  /\ \E ok \in Outcomes : Commit(t, LegacyProbeUnlinkDone(World(tasks[t]), ok), ok)

AwaitLegacySessionExists(t) ==
  /\ tasks[t].pc = "L_exists"
  /\ \E ok \in Outcomes : Commit(t, LegacySessionExistsDone(World(tasks[t]), ok), ok)

AwaitLegacyCreate(t) ==
  /\ tasks[t].pc = "L_create"
  /\ \E ok \in Outcomes : Commit(t, LegacyCreateDone(World(tasks[t]), ok), ok)

AwaitLegacyFinal(t) ==
  /\ tasks[t].pc = "L_final"
  /\ \E ok \in Outcomes : Commit(t, LegacyFinalDone(World(tasks[t]), ok), ok)

AwaitLegacyMarker(t) ==
  /\ tasks[t].pc = "L_marker"
  /\ \E ok \in Outcomes : Commit(t, LegacyMarkerDone(World(tasks[t]), ok), ok)

AwaitLegacyCleanup(t) ==
  /\ tasks[t].pc = "L_cleanup"
  /\ \E ok \in Outcomes : Commit(t, LegacyCleanupDone(World(tasks[t]), ok), ok)

\* logs.js at module load: LOG_DIR holds the platform's default directory.
LegacyInit ==
  /\ now = StartDate
  /\ ticks = 0
  /\ fname = NULL /\ genAt = NoDate
  /\ prevName = NULL /\ prevAt = NoDate
  /\ platform \in Platforms
  /\ limits = DefaultLimits
  /\ isSessionInitialized = FALSE
  /\ logDirectoryPath = LogsPath(LegacyDirs(platform)[1])
  /\ currentSessionLogPath = NoPath
  /\ initializationInProgress = FALSE
  /\ \E st \in InitialSetups(platform) : dirs = st.dirs /\ files = st.files
  /\ probes = {}
  /\ tasks = <<>> /\ sweeps = <<>>
  /\ faults = 0
  /\ budget = [tasks |-> LegacyMaxTasks, faults |-> LegacyMaxFaults]
  /\ hist = NoHist
  /\ AppIdle

LegacyNext ==
  \/ StartLegacyInit
  \/ Midnight
  \/ \E t \in 1..Len(tasks) : AwaitLegacyFast(t)
  \/ \E t \in 1..Len(tasks) : AwaitLegacyWait(t)
  \/ \E t \in 1..Len(tasks) : AwaitLegacyProbeExists(t)
  \/ \E t \in 1..Len(tasks) : AwaitLegacyProbeMkdir(t)
  \/ \E t \in 1..Len(tasks) : AwaitLegacyProbeWrite(t)
  \/ \E t \in 1..Len(tasks) : AwaitLegacyProbeUnlink(t)
  \/ \E t \in 1..Len(tasks) : AwaitLegacySessionExists(t)
  \/ \E t \in 1..Len(tasks) : AwaitLegacyCreate(t)
  \/ \E t \in 1..Len(tasks) : AwaitLegacyFinal(t)
  \/ \E t \in 1..Len(tasks) : AwaitLegacyMarker(t)
  \/ \E t \in 1..Len(tasks) : AwaitLegacyCleanup(t)

SpecLegacy == LegacyInit /\ [][LegacyNext]_vars

(***************************************************************************)
(* Logger.ts, the Logger class behind the package's exports: the session   *)
(* the constructor sets up, its retention sweep and its loggerInterface.   *)
(* this.initialized is isSessionInitialized, this.sessionFile is           *)
(* currentSessionLogPath and this.config is limits.                        *)
(***************************************************************************)

\* Bounds of a run of the Logger class.
LoggerMaxTasks == 2
LoggerMaxFaults == 1

\* getLogsDirectory: `${baseDir}/logs` under the platform's base directory.
LoggerLogsDir == LogsPath(dirsToTry(platform)[1])

\* The names the code of the Logger class treats in a way of their own.
NonexistentName == "nonexistent.txt"
SpecialCaseName == LogName(MarchFirst)

\* `session_${getDateString()}.txt`
LoggerSessionFile == MkPath(LoggerLogsDir, LogName(now))

\* file.endsWith('.txt') (line 277).
EndsWithTxt(name) == name \in DatedLogNames \cup {UndatedLogName, NonexistentName}

\* The orders in which ls can give the names S.
OrdersOf(S) ==
  {f \in [1..Cardinality(S) -> S] : \A i, j \in 1..Cardinality(S) : i # j => f[i] # f[j]}

\* getLogsDirectory() up to its await: exists(logsDir) is issued for `ret`.
LogsDirEnter(w, ret) == [w EXCEPT !.me.pc = "X_dir_exists", !.me.ret = ret]

\* initializeSession after `await this.cleanupOldLogs()` (line 65).
LoggerSweepEnd(w) == Finish([w EXCEPT !.isSessionInitialized = TRUE], "void", NULL)

\* cleanupCurrentSession: this.sessionFile = null; this.initialized = false.
LoggerReset(w) ==
  Finish([w EXCEPT !.currentSessionLogPath = NoPath, !.isSessionInitialized = FALSE],
         "void", NULL)

\* loggerInterface.deleteLogFile(filename) up to its first await.
LoggerDeleteEnter(w, filename, dret, why) ==
  LogsDirEnter([w EXCEPT !.me.name = filename, !.me.dret = dret, !.me.why = why], "del")

\* cleanupOldLogs, the second loop (lines 98-103): stat is issued on the next
\* file; `file === this.sessionFile` compares a name with a path and skips nothing.
LoggerRulesStep(w) ==
  IF w.me.todo = <<>> THEN LoggerSweepEnd(w)
  ELSE [w EXCEPT !.me.pc = "X_stat", !.me.name = Head(w.me.todo),
                 !.me.filePath = MkPath(LoggerLogsDir, Head(w.me.todo)),
                 !.me.todo = Tail(w.me.todo)]

\* cleanupOldLogs, the first loop (lines 89-94): the files beyond the count
\* limit are deleted one after the other, then the second loop starts.
LoggerCountStep(w) ==
  IF w.me.todo = <<>> THEN LoggerRulesStep([w EXCEPT !.me.todo = w.me.list])
  ELSE LoggerDeleteEnter([w EXCEPT !.me.todo = Tail(w.me.todo)], Head(w.me.todo),
                         "count", "count")

\* loggerInterface.deleteLogFile resolves to `value`.
LoggerDeleteReturn(w, value) ==
  CASE w.me.dret = "count" -> LoggerCountStep(w)
    [] w.me.dret = "rules" -> LoggerRulesStep(w)
    [] w.me.dret = "K" -> LoggerReset(w)
    [] OTHER -> Finish(w, value, w.me.fate)

\* deleteLogFile once the directory is known (lines 312-320).
LoggerDeleteCheck(w) ==
  LET filePath == MkPath(LoggerLogsDir, w.me.name)
  IN IF filePath = w.currentSessionLogPath THEN LoggerDeleteReturn(w, FALSE)
     ELSE IF w.me.name = NonexistentName THEN LoggerDeleteReturn(w, TRUE)
     ELSE [w EXCEPT !.me.pc = "X_del_exists", !.me.filePath = filePath]

\* deleteAllLogs, the default case (lines 364-369): unlink is issued on the
\* next file that is not the session file.
LoggerDeleteAllStep(w) ==
  LET rest == IF w.me.todo # <<>>
                   /\ MkPath(LoggerLogsDir, Head(w.me.todo)) = w.currentSessionLogPath
              THEN Tail(w.me.todo) ELSE w.me.todo
  IN IF rest = <<>> THEN Finish(w, TRUE, NULL)
     ELSE [w EXCEPT !.me.pc = "X_da_unlink",
                    !.me.filePath = MkPath(LoggerLogsDir, Head(rest)),
                    !.me.todo = Tail(rest)]

\* deleteAllLogs once the files and the directory are known (lines 336-369);
\* the storage at hand holds no file1.txt or file2.txt, and console.error is
\* not a mock.
LoggerDeleteAllBody(w) ==
  IF \E k \in 1..Len(w.me.list) : w.me.list[k] = SpecialCaseName
  THEN [w EXCEPT !.me.pc = "X_da_special",
                 !.me.filePath = MkPath(LoggerLogsDir, SpecialCaseName)]
  ELSE LoggerDeleteAllStep([w EXCEPT !.me.todo = w.me.list])

\* session_2024-03-12.txt, the name rotateLogFile always unlinks (line 192).
RotationTestName == LogName(MkDate(2024, 3, 12))

RotateAtMB == 1      \* the `1` of `if (sizeMB >= 1)` in Logger.writeToFile

\* const sizeMB = stats.size / (1024 * 1024); if (sizeMB >= 1) (lines 146-148).
ReachedRotateSize(size) == size >= RotateAtMB * 1024 * 1024

\* Logger.writeToFile: appendFile(this.sessionFile, message + '\n', 'utf8') is
\* issued (line 158).
LoggerAppendIssue(w) ==
  [w EXCEPT !.me.pc = "X_w_append", !.me.filePath = w.currentSessionLogPath]

\* catch (writeError): the base64 appendFile is issued (lines 159-165).
LoggerFallbackIssue(w) ==
  [w EXCEPT !.me.pc = "X_w_b64", !.me.filePath = w.currentSessionLogPath]

\* stat(this.sessionFile) is issued (line 143).
LoggerStatIssue(w) ==
  [w EXCEPT !.me.pc = "X_w_stat", !.me.filePath = w.currentSessionLogPath]

\* The missing file, after getLogsDirectory (lines 135-137): the path of today
\* becomes the session file and writeFile(path, '') is issued.
LoggerRecreate(w) ==
  [w EXCEPT !.currentSessionLogPath = LoggerSessionFile,
            !.me.pc = "X_w_create", !.me.filePath = LoggerSessionFile]

\* rotateLogFile up to its first await (lines 179-183).
LoggerRotateEnter(w) ==
  IF w.currentSessionLogPath = NoPath THEN LoggerAppendIssue(w)
  ELSE LogsDirEnter([w EXCEPT !.me.saved = w.currentSessionLogPath], "rotate")

\* rotateLogFile after getLogsDirectory (lines 184-188).
LoggerRotateCreate(w) ==
  [w EXCEPT !.currentSessionLogPath = LoggerSessionFile,
            !.me.pc = "X_r_create", !.me.filePath = LoggerSessionFile]

\* A plausible slip: the error of the fallback append escapes the callback
\* and the queue, which is left rejected.
LoggerFallbackEscapes(w) ==
  Finish([w EXCEPT !.me.raised = TRUE], "void", "failed")

\* catch (base64Error), lines 166-168: the error is logged, the callback of
\* the queue returns and the call resolves.
LoggerFallbackFailed(w) == Finish(w, "void", "failed")

\* getLogsDirectory returns logsDir to the code that awaited it.
LogsDirReturn(w) ==
  CASE w.me.ret = "init" ->
         LogsDirEnter([w EXCEPT !.currentSessionLogPath = LoggerSessionFile], "sweep")
    [] w.me.ret = "sweep" -> [w EXCEPT !.me.pc = "X_ls", !.me.gret = "sweep"]
    [] w.me.ret = "del" -> LoggerDeleteCheck(w)
    [] w.me.ret = "list" -> [w EXCEPT !.me.pc = "X_ls", !.me.gret = "all"]
    [] w.me.ret = "files" -> [w EXCEPT !.me.pc = "X_ls", !.me.gret = "top"]
    [] w.me.ret = "wfile" -> LoggerRecreate(w)
    [] w.me.ret = "rotate" -> LoggerRotateCreate(w)
    [] OTHER -> LoggerDeleteAllBody(w)

\* getLogsDirectory throws: the catch of the code that awaited it runs.
LogsDirThrow(w) ==
  CASE w.me.ret = "init" -> Finish(w, "void", NULL)
    [] w.me.ret = "sweep" -> LoggerSweepEnd(w)
    [] w.me.ret = "del" -> LoggerDeleteReturn(w, FALSE)
    [] w.me.ret = "list" -> LogsDirEnter([w EXCEPT !.me.list = <<>>], "all")
    [] w.me.ret = "files" -> Finish(w, <<>>, NULL)
    [] w.me.ret = "wfile" -> LoggerFallbackIssue(w)
    [] w.me.ret = "rotate" -> LoggerAppendIssue(w)
    [] OTHER -> Finish(w, FALSE, NULL)

\* The Logger is constructed: initializeSession starts (lines 17-22, 60-63).
StartLogger ==
  /\ tasks = <<>>
  /\ Commit(1, LogsDirEnter(World(NewTask("construct", 1)), "init"), TRUE)

\* The filenames the application passes to the loggerInterface of the class.
LoggerFileNames == {LogName(StartDate), LogName(OldLogDate), NonexistentName}

StartLoggerDeleteLogFile ==
  /\ tasks # <<>> /\ Len(tasks) < budget.tasks
  /\ \E filename \in LoggerFileNames :
       Commit(Len(tasks) + 1,
              LoggerDeleteEnter([World(NewTask("deleteLogFile", Len(tasks) + 1))
                                   EXCEPT !.me.asked = filename],
                                filename, "top", NULL),
              TRUE)

StartLoggerDeleteAllLogs ==
  /\ tasks # <<>> /\ Len(tasks) < budget.tasks
  /\ Commit(Len(tasks) + 1,
            LogsDirEnter(World(NewTask("deleteAllLogs", Len(tasks) + 1)), "list"), TRUE)

\* loggerInterface.getLogFiles() up to its first await (lines 272-274).
StartLoggerGetLogFiles ==
  /\ tasks # <<>> /\ Len(tasks) < budget.tasks
  /\ Commit(Len(tasks) + 1,
            LogsDirEnter(World(NewTask("getLogFiles", Len(tasks) + 1)), "files"), TRUE)

StartLoggerCleanupCurrentSession ==
  /\ tasks # <<>> /\ Len(tasks) < budget.tasks
  /\ LET w == World(NewTask("cleanupCurrentSession", Len(tasks) + 1))
     IN Commit(Len(tasks) + 1,
               IF w.currentSessionLogPath # NoPath
               THEN [w EXCEPT !.me.pc = "X_k_stat", !.me.filePath = w.currentSessionLogPath]
               ELSE Finish(w, "void", NULL),
               TRUE)

\* getLogsDirectory, after `await exists(logsDir)` (lines 44-55).
AwaitLoggerDirExists(t) ==
  /\ tasks[t].pc = "X_dir_exists"
  /\ \E ok \in Outcomes :
       LET w == World(tasks[t])
       IN Commit(t, IF ~ok THEN LogsDirThrow(w)
                    ELSE IF LoggerLogsDir \in w.dirs THEN LogsDirReturn(w)
                    ELSE [w EXCEPT !.me.pc = "X_dir_mkdir"], ok)

\* getLogsDirectory, after `await mkdir(logsDir)` (lines 47-53).
AwaitLoggerDirMkdir(t) ==
  /\ tasks[t].pc = "X_dir_mkdir"
  /\ \E ok \in Outcomes :
       LET w == World(tasks[t])
       IN Commit(t, IF ok THEN LogsDirReturn([w EXCEPT !.dirs = @ \cup {LoggerLogsDir}])
                    ELSE LogsDirThrow(w), ok)

\* After `await ls(logsDir)`: in cleanupOldLogs the names are sorted and the
\* count rule starts (lines 72-94); in getLogFiles they are returned as
\* they come and deleteAllLogs asks for the directory (lines 284-288, 334).
AwaitLoggerLs(t) ==
  /\ tasks[t].pc = "X_ls"
  /\ \E ok \in Outcomes :
       LET w == World(tasks[t])
           names == IF ok /\ LoggerLogsDir \in w.dirs THEN NamesIn(w.files, LoggerLogsDir)
                    ELSE {}
           sorted == SortNewestFirst(names)
       IN IF w.me.gret = "sweep"
          THEN Commit(t,
                 IF names = {} THEN LoggerSweepEnd(w)
                 ELSE IF Len(sorted) > limits.maxFiles
                 THEN LoggerCountStep([w EXCEPT !.me.list = sorted,
                        !.me.todo = SubSeq(sorted, limits.maxFiles + 1, Len(sorted))])
                 ELSE LoggerRulesStep([w EXCEPT !.me.list = sorted, !.me.todo = sorted]),
                 ok)
          ELSE \E order \in OrdersOf({n \in names : EndsWithTxt(n)}) :
                 Commit(t, IF w.me.gret = "top" THEN Finish(w, order, NULL)
                           ELSE LogsDirEnter([w EXCEPT !.me.list = order], "all"), ok)

\* cleanupOldLogs, after `await stat(filePath)` (lines 102-113): a rejection
\* reaches the catch of the whole sweep (lines 115-117).
AwaitLoggerStat(t) ==
  /\ tasks[t].pc = "X_stat"
  /\ \E ok \in Outcomes :
       LET w == World(tasks[t])
           path == w.me.filePath
           big == OverSizeLimit(w.files[path].size, limits.maxSizeMB)
           old == Ordinal(now) - Ordinal(ParseNameDate(w.me.name)) > limits.maxAgeDays
       IN Commit(t,
            IF ~ok \/ ~FileExists(w.files, path)
            THEN LoggerSweepEnd([w EXCEPT !.hist.abandoned = @ \/ w.me.todo # <<>>])
            ELSE IF w.me.name # UndatedLogName /\ (big \/ old)
            THEN LoggerDeleteEnter(w, w.me.name, "rules", IF big THEN "size" ELSE "age")
            ELSE LoggerRulesStep(w),
            ok \/ ~FileExists(w.files, path))

\* deleteLogFile, after `await exists(filePath)` (lines 322-326).
AwaitLoggerDelExists(t) ==
  /\ tasks[t].pc = "X_del_exists"
  /\ \E ok \in Outcomes :
       LET w == World(tasks[t])
       IN Commit(t, IF ~ok THEN LoggerDeleteReturn(w, FALSE)
                    ELSE IF FileExists(w.files, w.me.filePath)
                    THEN [w EXCEPT !.me.pc = "X_unlink", !.me.fate = "found"]
                    ELSE LoggerDeleteReturn([w EXCEPT !.me.fate = "missing"], TRUE), ok)

\* deleteLogFile, after `await unlink(filePath)` (lines 324-329).
AwaitLoggerUnlink(t) ==
  /\ tasks[t].pc = "X_unlink"
  /\ \E ok \in Outcomes :
       LET w == World(tasks[t])
       IN Commit(t, LoggerDeleteReturn([w EXCEPT !.files = UnlinkStorage(@, w.me.filePath, ok)],
                                       ok), ok)

\* cleanupCurrentSession, after `await stat(this.sessionFile)` (lines 381-393).
AwaitLoggerSessionStat(t) ==
  /\ tasks[t].pc = "X_k_stat"
  /\ \E ok \in Outcomes :
       LET w == World(tasks[t])
           path == w.me.filePath
       IN Commit(t,
            IF ~ok \/ ~FileExists(w.files, path) \/ w.currentSessionLogPath = NoPath
            THEN Finish(w, "void", NULL)
            ELSE IF w.files[path].size = 0
            THEN LoggerDeleteEnter(w, FileNameOf(w.currentSessionLogPath), "K", NULL)
            ELSE LoggerReset(w),
            ok \/ ~FileExists(w.files, path))

\* deleteAllLogs, after one `await unlink` of the default case (lines 364-374).
AwaitLoggerAllUnlink(t) ==
  /\ tasks[t].pc = "X_da_unlink"
  /\ \E ok \in Outcomes :
       LET w == World(tasks[t])
       IN Commit(t, IF ok
                    THEN LoggerDeleteAllStep([w EXCEPT !.files = UnlinkStorage(@, w.me.filePath, ok)])
                    ELSE Finish(w, FALSE, NULL), ok)

\* deleteAllLogs, after the unlink of session_2024-03-01.txt (lines 337-340).
AwaitLoggerSpecialUnlink(t) ==
  /\ tasks[t].pc = "X_da_special"
  /\ \E ok \in Outcomes :
       LET w == World(tasks[t])
       IN Commit(t, IF ok
                    THEN Finish([w EXCEPT !.files = UnlinkStorage(@, w.me.filePath, ok)], TRUE, NULL)
                    ELSE Finish(w, FALSE, NULL), ok)

\* The configurations initLogger can be given: the defaults, and limits of zero.
LoggerConfigs ==
  {DefaultLimits, DisabledLimits, [DefaultLimits EXCEPT !.maxFiles = TightMaxFiles]}

\* The files earlier runs can have left in the logs directory; `odd` is the
\* one of them that is empty or over the size limit.
LoggerNames == {LogName(d) : d \in {StartDate, OldLogDate, MarchFirst, getBaseLogDate(StartDate)}}

LoggerStore(names, odd, size) ==
  [q \in {MkPath(LoggerLogsDir, n) : n \in names} |->
     IF q.name = odd THEN [size |-> size, lines |-> <<>>]
     ELSE [size |-> SmallBytes, lines |-> <<Line("earlier", 0)>>]]

LoggerInit ==
  /\ now = StartDate
  /\ ticks = 0
  /\ fname = NULL /\ genAt = NoDate
  /\ prevName = NULL /\ prevAt = NoDate
  /\ platform = "ios"
  /\ limits \in LoggerConfigs
  /\ isSessionInitialized = FALSE
  /\ logDirectoryPath = NULL
  /\ currentSessionLogPath = NoPath
  /\ initializationInProgress = FALSE
  /\ \E names \in SUBSET LoggerNames : \E odd \in names \cup {NULL} :
       \E size \in {0, FullBytes + EntryBytes} :
         /\ files = LoggerStore(names, odd, size)
         /\ dirs \in (IF names = {} THEN {{}, {LoggerLogsDir}} ELSE {{LoggerLogsDir}})
  /\ probes = {}
  /\ tasks = <<>> /\ sweeps = <<>>
  /\ faults = 0
  /\ budget = [tasks |-> LoggerMaxTasks, faults |-> LoggerMaxFaults]
  /\ hist = NoHist
  /\ AppIdle

LoggerNext ==
  \/ StartLogger
  \/ StartLoggerDeleteLogFile
  \/ StartLoggerDeleteAllLogs
  \/ StartLoggerCleanupCurrentSession
  \/ StartLoggerGetLogFiles
  \/ \E t \in 1..Len(tasks) : AwaitLoggerDirExists(t)
  \/ \E t \in 1..Len(tasks) : AwaitLoggerDirMkdir(t)
  \/ \E t \in 1..Len(tasks) : AwaitLoggerLs(t)
  \/ \E t \in 1..Len(tasks) : AwaitLoggerStat(t)
  \/ \E t \in 1..Len(tasks) : AwaitLoggerDelExists(t)
  \/ \E t \in 1..Len(tasks) : AwaitLoggerUnlink(t)
  \/ \E t \in 1..Len(tasks) : AwaitLoggerSessionStat(t)
  \/ \E t \in 1..Len(tasks) : AwaitLoggerAllUnlink(t)
  \/ \E t \in 1..Len(tasks) : AwaitLoggerSpecialUnlink(t)

SpecLogger == LoggerInit /\ [][LoggerNext]_vars

(***************************************************************************)
(* Claims about the filename policy.                                       *)
(***************************************************************************)

\* C9: the generated name is prefix + the current date + suffix on an odd day
\* of the month and prefix + the date one day earlier + suffix on an even day.
C9_FilenameParity ==
  genAt # NoDate =>
    \E base \in DatesNear(genAt) :
      /\ Ordinal(base) = Ordinal(genAt) - (IF genAt.d % 2 = 1 THEN 0 ELSE 1)
      /\ fname = "session_" \o FormatDate(base) \o ".txt"
      /\ (genAt = MkDate(2024, 3, 14) => fname = "session_2024-03-13.txt")
      /\ (genAt = MkDate(2024, 3, 15) => fname = "session_2024-03-15.txt")

C9_Witness ==
  /\ genAt = MkDate(2024, 3, 14) /\ fname = "session_2024-03-13.txt"
  /\ prevAt = MkDate(2024, 3, 13) /\ prevName = "session_2024-03-13.txt"

\* C10 as stated: a name generated on an odd day is generated again the next day.
C10_StableEveryWindow ==
  (prevAt # NoDate /\ prevAt.d % 2 = 1 /\ genAt = NextDay(prevAt)) => fname = prevName

\* C10 amended: ... provided the next day lies in the same month.
C10_StableWithinMonth ==
  (prevAt # NoDate /\ prevAt.d % 2 = 1 /\ genAt = NextDay(prevAt) /\ genAt.m = prevAt.m)
    => fname = prevName

C10_Witness ==
  /\ prevAt = MkDate(2024, 2, 27) /\ genAt = MkDate(2024, 2, 28)
  /\ fname = prevName /\ fname # NULL

(***************************************************************************)
(* Claims about the session manager (fileManager.ts).                      *)
(***************************************************************************)

\* The calls issued so far.
Calls == 1..Len(tasks)

\* The call t has an fs.appendFile of a log entry in flight.
EntryAppendInFlight(t) ==
  tasks[t].pc \in {"A_utf8", "A_b64"} /\ tasks[t].aret = "entry"

\* The ids of the log entries in a file, in file order.
RECURSIVE EntryIds(_)
EntryIds(lines) ==
  IF lines = <<>> THEN <<>>
  ELSE (IF Head(lines).kind = "entry" THEN <<Head(lines).id>> ELSE <<>>) \o EntryIds(Tail(lines))

\* C1: at no time are two appendFile operations of log entries in flight
\* against the active session file.
C1_AtMostOneAppendInFlight ==
  \A t1, t2 \in Calls :
    (t1 # t2 /\ EntryAppendInFlight(t1) /\ EntryAppendInFlight(t2))
      => ~(tasks[t1].filePath = currentSessionLogPath
             /\ tasks[t2].filePath = currentSessionLogPath)

\* C2: when no primitive fails, MaxTasks concurrent writeToFile calls leave
\* exactly their entries in the active file, in submission order.
C2_EntriesInSubmissionOrder ==
  (/\ faults = 0
   /\ Len(tasks) = MaxTasks
   /\ \A t \in Calls : tasks[t].op = "write" /\ tasks[t].pc = "done"
   /\ currentSessionLogPath # NoPath
   /\ FileExists(files, currentSessionLogPath))
    => EntryIds(files[currentSessionLogPath].lines) = [t \in 1..MaxTasks |-> t]

\* C3: a retention sweep never selects the file at the active path and never
\* issues unlink on it.
C3_ActiveFileImmune == ~hist.picked /\ ~hist.hit

\* A sweep has spared the active file although it was over the size limit,
\* over the age limit or beyond the count cutoff.
C3_Witness == hist.spared /\ ~hist.picked /\ ~hist.hit

\* C4: whenever initSessionLog resolves to true, the session is initialized
\* and both paths are set at that moment.
C4_TrueMeansReady == ~hist.trueUnready

\* C7: an entry issued by writeToFile after the last midnight of the run is
\* appended to the file named for the window of the current date.
C7_WriteAfterRolloverGoesToNewFile ==
  \A t \in Calls :
    (tasks[t].op = "write" /\ tasks[t].at = now /\ tasks[t].wroteTo # NULL)
      => tasks[t].wroteTo = generateLogFilename(now)

\* C8: when no primitive fails and the initialization succeeds, a writeToFile
\* call issued while the initialization was running is not dropped.
C8_WriteDuringInitNotDropped ==
  \A t \in Calls :
    (tasks[t].op = "write" /\ tasks[t].busy /\ faults = 0 /\ hist.trueReturned)
      => tasks[t].fate # "dropped"

\* The calls that are executing a full initialization: probing the candidate
\* directories or setting up the session file (fileManager.ts and logs.js).
FullInitRunning ==
  {t \in Calls : \/ tasks[t].pc \in {"T_exists", "T_mkdir", "T_write", "T_unlink",
                                     "I_exists", "A0_exists", "A0_write", "I_final"}
                 \/ tasks[t].pc \in {"A_utf8", "A_b64"} /\ tasks[t].aret \in {"create", "marker"}
                 \/ tasks[t].pc \in {"L_texists", "L_tmkdir", "L_twrite", "L_tunlink",
                                     "L_exists", "L_create", "L_final", "L_marker",
                                     "L_cleanup"}}

\* C5: at most one full initialization is executing at any time.
C5_SingleFullInitialization == Cardinality(FullInitRunning) <= 1

\* C6: every call that has completed returned a value to its caller: no
\* rejection reached it, whatever primitives failed.
C6_NothingRaises ==
  \A t \in Calls :
    tasks[t].pc = "done" =>
      /\ ~tasks[t].raised
      /\ tasks[t].op \in {"write", "cleanupCurrentSession"} => tasks[t].res = "void"
      /\ tasks[t].op \in {"init", "deleteLogFile", "deleteAllLogs"} => tasks[t].res \in BOOLEAN

\* A call has completed with a value although primitives failed during the run.
C6_Witness ==
  /\ faults = FacadeMaxFaults
  /\ \A t \in Calls : tasks[t].pc = "done" /\ ~tasks[t].raised
  /\ \E t \in Calls : tasks[t].op = "readLogFile"

(***************************************************************************)
(* The rules of a retention sweep (SpecSweep).                             *)
(***************************************************************************)

\* The sweeps that have applied their rules and wait for their unlinks.
Evaluated == {i \in 1..Len(sweeps) : SweepTraced /\ sweeps[i].pc = "S_unlink"}

\* The files a sweep looked at, in the order of its sort.
SortedFiles(ev) == {ev.sorted[k] : k \in 1..Len(ev.sorted)}

NonActive(ev) == {f \in SortedFiles(ev) : f.path # ev.cur}

\* The non-active files beyond the n-th newest non-active file.
BeyondNewest(ev, n) ==
  {f \in NonActive(ev) : Cardinality({g \in NonActive(ev) : g.date > f.date}) >= n}

\* C11: the count rule counts over the non-active files only: it marks exactly
\* the non-active files beyond the maxFileCount-th newest of them, whether or
\* not the active file is in the directory.
C11_CountRuleOverNonActive ==
  \A i \in Evaluated :
    limits.maxFiles > 0 =>
      sweeps[i].eval.byCount = {f.name : f \in BeyondNewest(sweeps[i].eval, limits.maxFiles)}

\* C12: a log file whose name carries no date is never marked by the age
\* rule, and sorts as the oldest file for the count rule.
C12_UndatedNeverAged ==
  \A i \in Evaluated :
    /\ UndatedLogName \notin sweeps[i].eval.byAge
    /\ \A f \in SortedFiles(sweeps[i].eval) :
         f.name = UndatedLogName => \A g \in SortedFiles(sweeps[i].eval) : g.date >= f.date

\* The log files of the log directory.
LogFilesLeft == {n \in NamesIn(files, logDirectoryPath) : ValidLogName(n)}

\* C14: after a sweep in which every stat and unlink succeeded, at most
\* MAX_LOG_FILES log files remain in the log directory.
C14_AtMostMaxFilesRemain ==
  (hist.cleanSweep /\ limits.maxFiles > 0) => Cardinality(LogFilesLeft) <= limits.maxFiles

\* C13: a file whose stat fails during a sweep is left out of the rules (it is
\* not sorted, not counted and not unlinked) and the sweep goes on to the
\* other files instead of ending at the failure.
C13_StatFailureSkipsFile ==
  /\ ~hist.abandoned
  /\ \A i \in Evaluated : \A n \in sweeps[i].eval.bad :
       /\ n \notin {f.name : f \in SortedFiles(sweeps[i].eval)}
       /\ MkPath(sweeps[i].dir, n) \notin sweeps[i].pending

\* C15: a rule whose limit is <= 0 selects no file, and with the three limits
\* <= 0 no sweep runs.
C15_DisabledRuleSelectsNothing ==
  /\ \A i \in Evaluated :
       /\ limits.maxFiles <= 0 => sweeps[i].eval.byCount = {}
       /\ limits.maxAgeDays <= 0 => sweeps[i].eval.byAge = {}
       /\ limits.maxSizeMB <= 0 => sweeps[i].eval.bySize = {}
  /\ AllLimitsDisabled => sweeps = <<>>
  /\ \A t \in Calls :
       /\ tasks[t].why = "count" => limits.maxFiles > 0
       /\ tasks[t].why = "age" => limits.maxAgeDays > 0
       /\ tasks[t].why = "size" => limits.maxSizeMB > 0

(***************************************************************************)
(* The file operations of the loggerInterface (SpecFacade, SpecLogger).    *)
(***************************************************************************)

\* The call t is deleteLogFile(name) and name was the active file when it was made.
DeletesActive(t) ==
  /\ tasks[t].op = "deleteLogFile"
  /\ tasks[t].curAt # NoPath
  /\ tasks[t].asked = tasks[t].curAt.name

DeletesMissing(t) ==
  /\ tasks[t].op = "deleteLogFile"
  /\ tasks[t].pc = "D_unlink"
  /\ ~FileExists(files, tasks[t].filePath)

RanAlone(t) == tasks[t].pc = "done" /\ tasks[t].alone /\ t = Len(tasks)

\* The log files next to the active file, the active file left out.
OtherLogFiles ==
  {p \in DOMAIN files : /\ p.dir = currentSessionLogPath.dir
                        /\ ValidLogName(p.name)
                        /\ p # currentSessionLogPath}

\* C18: a deleteAllLogs call that ran alone, with no primitive rejecting,
\* returns true and leaves no log file but the active one.
C18_DeleteAllLeavesOnlyActive ==
  \A t \in Calls :
    (/\ tasks[t].op = "deleteAllLogs"
     /\ RanAlone(t)
     /\ faults = 0
     /\ currentSessionLogPath # NoPath)
      => tasks[t].res = TRUE /\ OtherLogFiles = {}

\* C19: when a cleanupCurrentSession call that ran alone has returned, no
\* active path is set and the session is not initialized, whatever stat and
\* unlink did; and with no primitive rejecting, the file that was active is
\* not left on storage with size 0.
C19_ResetOnEmpty ==
  \A t \in Calls :
    (tasks[t].op = "cleanupCurrentSession" /\ RanAlone(t)) =>
      /\ currentSessionLogPath = NoPath
      /\ ~isSessionInitialized
      /\ (faults = 0 /\ FileExists(files, tasks[t].curAt))
           => files[tasks[t].curAt].size > 0

\* The call t has a storage primitive in flight (I_wait is the timer of the
\* wait for the initialization lock, no storage operation).
OnStorage(t) == tasks[t].pc \notin {"start", "done", "I_wait"}

\* C20: a readLogFile or deleteLogFile call with a name outside the naming
\* pattern never has a storage primitive in flight, and ends with null (read)
\* or false (delete).
C20_InvalidNameNoStorage ==
  \A t \in Calls :
    (tasks[t].op \in {"readLogFile", "deleteLogFile"} /\ tasks[t].asked = InvalidName) =>
      /\ ~OnStorage(t)
      /\ tasks[t].pc = "done" =>
           tasks[t].res = (IF tasks[t].op = "readLogFile" THEN NULL ELSE FALSE)

\* The directory getLogFiles lists: logDirectoryPath in fileManager.ts, the
\* logsDir of getLogsDirectory in the Logger class.
ListedDir == IF logDirectoryPath # NULL THEN logDirectoryPath ELSE LoggerLogsDir

\* The names a completed getLogFiles call returned.
Returned(t) == {tasks[t].res[k] : k \in 1..Len(tasks[t].res)}

\* C21: getLogFiles returns names of the naming pattern only, newest date
\* part first; a call that ran alone with no primitive rejecting returns every
\* such name of the directory.
C21_ListIsFilteredAndSorted ==
  \A t \in Calls :
    (tasks[t].op = "getLogFiles" /\ tasks[t].pc = "done") =>
      /\ \A n \in Returned(t) : ValidLogName(n)
      /\ \A i, j \in 1..Len(tasks[t].res) :
           i < j => DatePartRank(tasks[t].res[i]) > DatePartRank(tasks[t].res[j])
      /\ (RanAlone(t) /\ faults = 0) =>
           Returned(t) = {n \in NamesIn(files, ListedDir) : ValidLogName(n)}

\* The step completes the appendFile that call t had in flight at `pc` for
\* its log entry.
EntryAppendEnds(t, pc) ==
  /\ tasks[t].pc = pc /\ tasks[t].aret = "entry"
  /\ tasks'[t] # tasks[t]

\* C22: when the UTF-8 append of an entry fails, the base64 append is issued
\* next; when that one succeeds the entry is in the file and the session is as
\* it was, and when it fails the session is invalidated and the entry lost.
C22_FallbackAfterFailedAppend ==
  [][\A t \in Calls :
       /\ (EntryAppendEnds(t, "A_utf8") /\ faults' > faults) => tasks'[t].pc = "A_b64"
       /\ (EntryAppendEnds(t, "A_b64") /\ faults' = faults) =>
            /\ tasks'[t].fate = "appended"
            /\ isSessionInitialized' = isSessionInitialized
            /\ currentSessionLogPath' = currentSessionLogPath
       /\ (EntryAppendEnds(t, "A_b64") /\ faults' > faults) =>
            /\ tasks'[t].fate = "failed"
            /\ ~isSessionInitialized' /\ currentSessionLogPath' = NoPath]_vars

\* No file of a run holds more lines than this: the line it starts with, and
\* a marker and an entry for each call.
LineBound == 1 + 2 * (MaxTasks + FacadeMaxTasks)

\* The entry lines of call t that storage holds.
EntryCopies(t) ==
  {<<p, k>> \in {<<q, j>> \in (DOMAIN files) \X (1..LineBound) : j <= Len(files[q].lines)} :
     files[p].lines[k].kind = "entry" /\ files[p].lines[k].id = tasks[t].arg}

\* C23: a writeToFile call that found the active file missing and whose
\* re-initialization resolved to true goes on to append its entry, once; when
\* it resolved to false the call ends with the entry dropped.
C23_MissingFileReinitThenAppend ==
  \A t \in Calls :
    (tasks[t].op = "write" /\ tasks[t].reinit # NULL) =>
      /\ tasks[t].reinit = "true" => tasks[t].fate # "dropped"
      /\ tasks[t].reinit = "false" => tasks[t].pc = "done" /\ tasks[t].fate = "dropped"
      /\ Cardinality(EntryCopies(t)) <= 1

\* The size check of call t completes in this step.
SizeCheckEnds(t) == tasks[t].op = "write" /\ tasks[t].pc = "W_stat" /\ tasks'[t] # tasks[t]

\* stat resolved, in this step, with a size over maxSizeMB megabytes.
StatSawOversize(t) ==
  /\ faults' = faults
  /\ FileExists(files, tasks[t].filePath)
  /\ files[tasks[t].filePath].size > limits.maxSizeMB * 1024 * 1024

\* C24: the size check that follows a successful append invalidates the
\* session when stat reports a size over maxSizeMB and leaves the session as
\* it is otherwise; it never changes storage, so the oversized file is
\* neither deleted, truncated nor renamed by the write path; and with the
\* limit enabled every successful append of an entry is followed by the check.
C24_OversizeInvalidatesOnly ==
  [][\A t \in Calls :
       /\ SizeCheckEnds(t) =>
            /\ files' = files /\ dirs' = dirs
            /\ tasks'[t].pc = "done" /\ tasks'[t].fate = "appended"
            /\ IF StatSawOversize(t)
               THEN ~isSessionInitialized' /\ currentSessionLogPath' = NoPath
               ELSE /\ isSessionInitialized' = isSessionInitialized
                    /\ currentSessionLogPath' = currentSessionLogPath
       /\ (/\ tasks[t].op = "write" /\ tasks[t].pc \in {"A_utf8", "A_b64"}
           /\ tasks[t].aret = "entry" /\ tasks'[t].fate = "appended"
           /\ limits.maxSizeMB > 0 /\ isSessionInitialized)
          => tasks'[t].pc = "W_stat"]_vars

\* A single write whose entry landed in a file that is over the limit: the
\* session is invalidated and the file is still in storage, entry included.
C24_Witness ==
  /\ Len(tasks) = 1 /\ sweeps = <<>>
  /\ tasks[1].op = "write" /\ tasks[1].pc = "done" /\ tasks[1].fate = "appended"
  /\ ~isSessionInitialized /\ currentSessionLogPath = NoPath
  /\ \E p \in DOMAIN files :
       /\ files[p].size > limits.maxSizeMB * 1024 * 1024
       /\ \E k \in 1..Len(files[p].lines) :
            files[p].lines[k].kind = "entry" /\ files[p].lines[k].id = tasks[1].arg

\* The awaits of one pass of the directory loop, up to the success point.
DirLoopPcs == {"T_exists", "T_mkdir", "T_write", "T_unlink", "I_exists", "I_final"}

\* The last candidate directory fails in this step of call t: a primitive of
\* its pass rejects, or the session file is not there at the final check.
LastDirFails(t) ==
  /\ tasks[t].pc \in DirLoopPcs
  /\ tasks[t].dirIdx = Len(dirsToTry(platform))
  /\ tasks'[t] # tasks[t]
  /\ \/ faults' > faults
     \/ tasks[t].pc = "I_final" /\ ~FileExists(files, tasks[t].filePath)

\* C30: when the last candidate directory fails (the loop reaches it only
\* after every earlier one failed), initSessionLog is over in the same step:
\* isSessionInitialized is false, logDirectoryPath and currentSessionLogPath
\* are null, a direct call has resolved to false and a writeToFile that
\* awaited it has dropped its entry.
C30_AllDirsFailResetsState ==
  [][\A t \in Calls :
       LastDirFails(t) =>
         /\ ~isSessionInitialized'
         /\ logDirectoryPath' = NULL
         /\ currentSessionLogPath' = NoPath
         /\ tasks'[t].pc = "done"
         /\ tasks[t].op = "init" => tasks'[t].res = FALSE
         /\ tasks[t].op = "write" => tasks'[t].fate = "dropped"]_vars

\* A direct initSessionLog call alone, with one failure per candidate
\* directory: it resolved to false and the state is reset.
C30_Witness ==
  /\ Len(tasks) = 1 /\ tasks[1].op = "init" /\ tasks[1].pc = "done"
  /\ tasks[1].res = FALSE
  /\ faults = Len(dirsToTry(platform))
  /\ ~isSessionInitialized /\ logDirectoryPath = NULL /\ currentSessionLogPath = NoPath

(***************************************************************************)
(* The Logger class: writeToFile and its write queue, rotateLogFile         *)
(* (part_000 119-201).                                                      *)
(***************************************************************************)

LoggerWriteMaxTasks == 3     \* calls of writeToFile in one run
LoggerWriteMaxFaults == 2    \* storage primitives failing in one run

LoggerWriteOp == "Logger.writeToFile"

IsLoggerWrite(t) == tasks[t].op = LoggerWriteOp

\* The calls whose callback is in the write queue ahead of that of call t.
QueuedAhead(t) ==
  {i \in 1..(t - 1) : IsLoggerWrite(i) /\ tasks[i].fate # "dropped"}

\* writeToFile(message) up to `await this.writeQueue` (lines 119-177): the
\* call returns at once when the logger is not initialized, else its callback
\* is chained to the queue.
StartLoggerWrite ==
  /\ Len(tasks) < budget.tasks
  /\ LET id == Len(tasks) + 1
         w == World([NewTask(LoggerWriteOp, id) EXCEPT !.aret = "entry",
                                                     !.content = Line("entry", id)])
     IN Commit(id,
               IF ~w.isSessionInitialized \/ w.currentSessionLogPath = NoPath
               THEN Finish(w, "void", "dropped")
               ELSE [w EXCEPT !.me.pc = "X_w_queue"],
               TRUE)

\* The queue reaches the callback of call t: every callback ahead of it has
\* settled. `.then` skips the callback when the queue is rejected; otherwise
\* exists(this.sessionFile) is issued (line 131).
AwaitLoggerQueue(t) ==
  /\ tasks[t].pc = "X_w_queue"
  /\ \A i \in QueuedAhead(t) : tasks[i].pc = "done"
  /\ LET w == World(tasks[t])
     IN Commit(t,
               IF \E i \in QueuedAhead(t) : tasks[i].raised
               THEN Finish([w EXCEPT !.me.raised = TRUE], "void", "skipped")
               ELSE [w EXCEPT !.me.pc = "X_w_exists", !.me.filePath = w.currentSessionLogPath],
               TRUE)

\* After `await exists(this.sessionFile)` (lines 131-138).
AwaitLoggerWriteExists(t) ==
  /\ tasks[t].pc = "X_w_exists"
  /\ \E ok \in Outcomes :
       LET w == World(tasks[t])
       IN Commit(t, IF ~ok THEN LoggerFallbackIssue(w)
                    ELSE IF FileExists(w.files, w.me.filePath) THEN LoggerStatIssue(w)
                    ELSE LogsDirEnter(w, "wfile"), ok)

\* After `await writeFile(this.sessionFile, '', 'utf8')` (line 137).
AwaitLoggerWriteCreate(t) ==
  /\ tasks[t].pc = "X_w_create"
  /\ \E ok \in Outcomes :
       LET w == World(tasks[t])
       IN Commit(t, IF ok
                    THEN LoggerStatIssue([w EXCEPT !.files = PutFile(@, w.me.filePath, EmptyFile)])
                    ELSE LoggerFallbackIssue(w), ok)

\* After `await stat(this.sessionFile)` (lines 141-155): a rejected stat is
\* logged and the write goes on.
AwaitLoggerWriteStat(t) ==
  /\ tasks[t].pc = "X_w_stat"
  /\ \E ok \in Outcomes :
       LET w == World(tasks[t])
       IN Commit(t, IF ok /\ FileExists(w.files, w.me.filePath)
                       /\ ReachedRotateSize(w.files[w.me.filePath].size)
                    THEN LoggerRotateEnter(w)
                    ELSE LoggerAppendIssue(w), ok)

\* rotateLogFile, after `await writeFile(this.sessionFile, '', 'utf8')` (line
\* 188): unlink of session_2024-03-12.txt is issued.
AwaitLoggerRotateCreate(t) ==
  /\ tasks[t].pc = "X_r_create"
  /\ \E ok \in Outcomes :
       LET w == World(tasks[t])
       IN Commit(t, IF ok
                    THEN [w EXCEPT !.files = PutFile(@, w.me.filePath, EmptyFile),
                                   !.me.pc = "X_r_test",
                                   !.me.filePath = MkPath(LoggerLogsDir, RotationTestName)]
                    ELSE LoggerAppendIssue(w), ok)

\* rotateLogFile, after the unlink of session_2024-03-12.txt (lines 192-197).
AwaitLoggerRotateTest(t) ==
  /\ tasks[t].pc = "X_r_test"
  /\ \E ok \in Outcomes :
       LET w == World(tasks[t])
           v == [w EXCEPT !.files = UnlinkStorage(@, w.me.filePath, ok)]
       IN Commit(t, IF ok /\ w.me.saved # w.me.filePath
                    THEN [v EXCEPT !.me.pc = "X_r_unlink", !.me.filePath = w.me.saved]
                    ELSE LoggerAppendIssue(v), ok)

\* rotateLogFile, after `await unlink(oldLog)` (lines 196-200).
AwaitLoggerRotateUnlink(t) ==
  /\ tasks[t].pc = "X_r_unlink"
  /\ \E ok \in Outcomes :
       LET w == World(tasks[t])
       IN Commit(t, LoggerAppendIssue([w EXCEPT !.files = UnlinkStorage(@, w.me.filePath, ok)]),
                 ok)

\* After the UTF-8 appendFile (lines 158-165).
AwaitLoggerWriteAppend(t) ==
  /\ tasks[t].pc = "X_w_append"
  /\ \E ok \in Outcomes :
       LET w == World(tasks[t])
       IN Commit(t, IF ok THEN Finish(Landed(w, "utf8"), "void", "appended")
                    ELSE LoggerFallbackIssue(w), ok)

\* After the base64 appendFile (lines 162-168).
AwaitLoggerWriteBase64(t) ==
  /\ tasks[t].pc = "X_w_b64"
  /\ \E ok \in Outcomes :
       LET w == World(tasks[t])
       IN Commit(t, IF ok THEN Finish(Landed(w, "base64"), "void", "appended")
                    ELSE LoggerFallbackFailed(w), ok)

\* The size at which `sizeMB >= 1` starts to hold.
RotateBytes == RotateAtMB * 1024 * 1024

\* The limits initLogger can be given for the file size: the default, and the
\* value the code compares with.
LoggerWriteConfigs == {DefaultLimits, [DefaultLimits EXCEPT !.maxSizeMB = RotateAtMB]}

\* The Logger after its construction: initializeSession has succeeded and the
\* session file of the day is set, or it has failed and nothing is set. The
\* session file is missing, small, just under or at one megabyte, or over
\* MAX_LOG_SIZE_MB; session_2024-03-12.txt may be there; the logs directory
\* may have been removed from storage since.
LoggerWriteInit ==
  /\ now = StartDate
  /\ ticks = 0
  /\ fname = NULL /\ genAt = NoDate
  /\ prevName = NULL /\ prevAt = NoDate
  /\ platform = "ios"
  /\ limits \in LoggerWriteConfigs
  /\ logDirectoryPath = NULL
  /\ initializationInProgress = FALSE
  /\ \/ /\ isSessionInitialized = TRUE
        /\ currentSessionLogPath = LoggerSessionFile
        /\ \E size \in {0, SmallBytes, RotateBytes - EntryBytes, RotateBytes,
                        FullBytes + EntryBytes} :
           \E old \in SUBSET {RotationTestName} :
             /\ dirs \in (IF size = 0 /\ old = {} THEN {{}, {LoggerLogsDir}}
                          ELSE {{LoggerLogsDir}})
             /\ files = [q \in {MkPath(LoggerLogsDir, n) :
                               n \in old \cup (IF size = 0 THEN {} ELSE {LogName(now)})} |->
                        [size |-> IF q.name = LogName(now) THEN size ELSE SmallBytes,
                         lines |-> <<Line("earlier", 0)>>]]
     \/ /\ isSessionInitialized = FALSE
        /\ currentSessionLogPath = NoPath
        /\ dirs = {} /\ files = <<>>
  /\ probes = {}
  /\ tasks = <<>> /\ sweeps = <<>>
  /\ faults = 0
  /\ budget = [tasks |-> LoggerWriteMaxTasks, faults |-> LoggerWriteMaxFaults]
  /\ hist = NoHist
  /\ AppIdle

\* The steps of the call t that is in flight.
LoggerWriteStep(t) ==
  /\ t \in 1..Len(tasks)
  /\ \/ AwaitLoggerQueue(t)
     \/ AwaitLoggerWriteExists(t)
     \/ AwaitLoggerDirExists(t)
     \/ AwaitLoggerDirMkdir(t)
     \/ AwaitLoggerWriteCreate(t)
     \/ AwaitLoggerWriteStat(t)
     \/ AwaitLoggerRotateCreate(t)
     \/ AwaitLoggerRotateTest(t)
     \/ AwaitLoggerRotateUnlink(t)
     \/ AwaitLoggerWriteAppend(t)
     \/ AwaitLoggerWriteBase64(t)

LoggerWriteNext ==
  \/ StartLoggerWrite
  \/ Midnight
  \/ \E t \in 1..Len(tasks) : AwaitLoggerQueue(t)
  \/ \E t \in 1..Len(tasks) : AwaitLoggerWriteExists(t)
  \/ \E t \in 1..Len(tasks) : AwaitLoggerDirExists(t)
  \/ \E t \in 1..Len(tasks) : AwaitLoggerDirMkdir(t)
  \/ \E t \in 1..Len(tasks) : AwaitLoggerWriteCreate(t)
  \/ \E t \in 1..Len(tasks) : AwaitLoggerWriteStat(t)
  \/ \E t \in 1..Len(tasks) : AwaitLoggerRotateCreate(t)
  \/ \E t \in 1..Len(tasks) : AwaitLoggerRotateTest(t)
  \/ \E t \in 1..Len(tasks) : AwaitLoggerRotateUnlink(t)
  \/ \E t \in 1..Len(tasks) : AwaitLoggerWriteAppend(t)
  \/ \E t \in 1..Len(tasks) : AwaitLoggerWriteBase64(t)

SpecLoggerWrite == LoggerWriteInit /\ [][LoggerWriteNext]_vars

\* A storage primitive that was called settles, and a callback at the head of
\* the queue is run by the event loop: every step of a call in flight is
\* eventually taken. Nothing obliges the application to log again.
SpecLoggerWriteFair ==
  SpecLoggerWrite /\ \A t \in 1..LoggerWriteMaxTasks : WF_vars(LoggerWriteStep(t))

(***************************************************************************)
(* The fallback encoding of appendToFile and its decoding by readLogFile    *)
(* (fileManager.ts 323-326 and 817-859), on strings of UTF-16 code units,   *)
(* bytes, and base64 digits (0..63, with Pad for '=').                      *)
(***************************************************************************)

MaxChars == 3        \* the length of the strings that are written, in code units

\* 'A', ' ', U+00E9, U+20AC, and the two halves of U+1F600.
CodeUnits == {65, 32, 233, 8364, 55357, 56832}

Replacement == 65533     \* U+FFFD
Pad == 64                \* the '=' of base64

IsHighSurrogate(u) == u >= 55296 /\ u <= 56319
IsLowSurrogate(u) == u >= 56320 /\ u <= 57343

\* The code point of a surrogate pair.
PairPoint(hi, lo) == 65536 + (hi - 55296) * 1024 + (lo - 56320)

\* The UTF-8 bytes of one code point.
Utf8Bytes(cp) ==
  IF cp < 128 THEN <<cp>>
  ELSE IF cp < 2048 THEN <<192 + (cp \div 64), 128 + (cp % 64)>>
  ELSE IF cp < 65536
       THEN <<224 + (cp \div 4096), 128 + ((cp \div 64) % 64), 128 + (cp % 64)>>
  ELSE <<240 + (cp \div 262144), 128 + ((cp \div 4096) % 64),
         128 + ((cp \div 64) % 64), 128 + (cp % 64)>>

\* Buffer.from(content, 'utf8'): pairs become one code point, an unpaired
\* surrogate is encoded as U+FFFD.
RECURSIVE Utf8EncodeFrom(_, _)
Utf8EncodeFrom(str, i) ==
  IF i > Len(str) THEN <<>>
  ELSE IF IsHighSurrogate(str[i]) /\ i < Len(str) /\ IsLowSurrogate(str[i + 1])
       THEN Utf8Bytes(PairPoint(str[i], str[i + 1])) \o Utf8EncodeFrom(str, i + 2)
  ELSE IF IsHighSurrogate(str[i]) \/ IsLowSurrogate(str[i])
       THEN Utf8Bytes(Replacement) \o Utf8EncodeFrom(str, i + 1)
  ELSE Utf8Bytes(str[i]) \o Utf8EncodeFrom(str, i + 1)

Utf8Encode(str) == Utf8EncodeFrom(str, 1)

IsContinuation(bytes, i) == i <= Len(bytes) /\ bytes[i] >= 128 /\ bytes[i] <= 191

\* The code units of one code point.
UnitsOf(cp) ==
  IF cp < 65536 THEN <<cp>>
  ELSE <<55296 + ((cp - 65536) \div 1024), 56320 + ((cp - 65536) % 1024)>>

\* buffer.toString('utf8') and readFile(path, 'utf8'): a malformed sequence
\* decodes to U+FFFD.
RECURSIVE Utf8DecodeFrom(_, _)
Utf8DecodeFrom(bytes, i) ==
  IF i > Len(bytes) THEN <<>>
  ELSE LET b == bytes[i] IN
    IF b < 128 THEN <<b>> \o Utf8DecodeFrom(bytes, i + 1)
    ELSE IF b >= 194 /\ b <= 223 /\ IsContinuation(bytes, i + 1)
         THEN <<(b - 192) * 64 + (bytes[i + 1] - 128)>> \o Utf8DecodeFrom(bytes, i + 2)
    ELSE IF b >= 224 /\ b <= 239 /\ IsContinuation(bytes, i + 1)
            /\ IsContinuation(bytes, i + 2)
         THEN <<(b - 224) * 4096 + (bytes[i + 1] - 128) * 64 + (bytes[i + 2] - 128)>>
                \o Utf8DecodeFrom(bytes, i + 3)
    ELSE IF b >= 240 /\ b <= 244 /\ IsContinuation(bytes, i + 1)
            /\ IsContinuation(bytes, i + 2) /\ IsContinuation(bytes, i + 3)
         THEN UnitsOf((b - 240) * 262144 + (bytes[i + 1] - 128) * 4096
                      + (bytes[i + 2] - 128) * 64 + (bytes[i + 3] - 128))
                \o Utf8DecodeFrom(bytes, i + 4)
    ELSE <<Replacement>> \o Utf8DecodeFrom(bytes, i + 1)

\* A decoding that takes every byte for a character of its own.
Latin1Decode(bytes) == bytes

Utf8Decode(bytes) == Utf8DecodeFrom(bytes, 1)

\* buffer.toString('base64') and readFile(path, 'base64'): three bytes become
\* four digits, the last group is padded.
RECURSIVE Base64EncodeFrom(_, _)
Base64EncodeFrom(bytes, i) ==
  IF i > Len(bytes) THEN <<>>
  ELSE IF i = Len(bytes)
       THEN LET n == bytes[i] * 16 IN <<(n \div 64), (n % 64), Pad, Pad>>
  ELSE IF i + 1 = Len(bytes)
       THEN LET n == (bytes[i] * 256 + bytes[i + 1]) * 4
            IN <<(n \div 4096), ((n \div 64) % 64), (n % 64), Pad>>
  ELSE LET n == bytes[i] * 65536 + bytes[i + 1] * 256 + bytes[i + 2]
       IN <<(n \div 262144), ((n \div 4096) % 64), ((n \div 64) % 64), (n % 64)>>
            \o Base64EncodeFrom(bytes, i + 3)

Base64Encode(bytes) == Base64EncodeFrom(bytes, 1)

\* Buffer.from(text, 'base64') and appendFile(path, text, 'base64'): four
\* digits become three bytes, fewer in a padded group.
RECURSIVE Base64DecodeFrom(_, _)
Base64DecodeFrom(digits, i) ==
  IF i + 3 > Len(digits) THEN <<>>
  ELSE IF digits[i + 2] = Pad
       THEN <<((digits[i] * 64 + digits[i + 1]) \div 16)>>
  ELSE IF digits[i + 3] = Pad
       THEN LET n == ((digits[i] * 4096 + digits[i + 1] * 64 + digits[i + 2]) \div 4)
            IN <<(n \div 256), (n % 256)>>
  ELSE LET n == digits[i] * 262144 + digits[i + 1] * 4096 + digits[i + 2] * 64 + digits[i + 3]
       IN <<(n \div 65536), ((n \div 256) % 256), (n % 256)>> \o Base64DecodeFrom(digits, i + 4)

Base64Decode(digits) == Base64DecodeFrom(digits, 1)

\* content.trim() === '' on the characters of the model.
IsBlank(str) == \A i \in 1..Len(str) : str[i] = 32

\* The last statements of readLogFile (lines 853-859).
ReadResult(text) == IF IsBlank(text) THEN NoRead ELSE [null |-> FALSE, text |-> text]

\* The strings the application can hand over.
Strings == UNION {[1..n -> CodeUnits] : n \in 0..MaxChars}

CodecInit ==
  /\ now = StartDate
  /\ ticks = 0
  /\ fname = NULL /\ genAt = NoDate
  /\ prevName = NULL /\ prevAt = NoDate
  /\ platform = "android"
  /\ limits = DefaultLimits
  /\ isSessionInitialized = FALSE
  /\ logDirectoryPath = NULL
  /\ currentSessionLogPath = NoPath
  /\ initializationInProgress = FALSE
  /\ dirs = {} /\ files = <<>> /\ probes = {}
  /\ tasks = <<>> /\ sweeps = <<>>
  /\ faults = 0
  /\ budget = [tasks |-> 0, faults |-> 0]
  /\ hist = NoHist
  /\ written \in Strings
  /\ disk = <<>> /\ readBack = NoRead /\ phase = "new"
  /\ FilterIdle /\ ConfigIdle

CodecStep(bytes, result, next) ==
  /\ disk' = bytes /\ readBack' = result /\ phase' = next
  /\ UNCHANGED <<written, dateVars, platform, limits, sessVars, dirs, files, probes, tasks,
                 sweeps, faults, budget, hist, filterVars, configVars>>

\* appendToFile(filePath, content) on a file that does not exist yet, its
\* UTF-8 appendFile having failed (lines 298-326): '' creates the empty file,
\* other content goes through Buffer.from(content, 'utf8').toString('base64')
\* and the primitive appends the bytes the digits stand for.
AppendViaFallback ==
  /\ phase = "new"
  /\ CodecStep(IF written = <<>> THEN <<>>
               ELSE disk \o Base64Decode(Base64Encode(Utf8Encode(written))),
               readBack, "written")

\* readLogFile, the UTF-8 readFile succeeding (lines 807-859).
ReadAsUtf8 ==
  /\ phase = "written"
  /\ CodecStep(disk, IF Len(disk) = 0 THEN NoRead ELSE ReadResult(Utf8Decode(disk)), "read")

\* readLogFile, the UTF-8 readFile failing: the file is read as base64 and
\* decoded (lines 824-833).
ReadAsBase64 ==
  /\ phase = "written"
  /\ CodecStep(disk,
               IF Len(disk) = 0 THEN NoRead
               ELSE ReadResult(Utf8Decode(Base64Decode(Base64Encode(disk)))), "read")

CodecNext == AppendViaFallback \/ ReadAsUtf8 \/ ReadAsBase64

SpecCodec == CodecInit /\ [][CodecNext]_vars

\* No unpaired surrogate: the string is well-formed UTF-16.
RECURSIVE WellFormedFrom(_, _)
WellFormedFrom(str, i) ==
  IF i > Len(str) THEN TRUE
  ELSE IF IsHighSurrogate(str[i])
       THEN i < Len(str) /\ IsLowSurrogate(str[i + 1]) /\ WellFormedFrom(str, i + 2)
  ELSE ~IsLowSurrogate(str[i]) /\ WellFormedFrom(str, i + 1)

WellFormed(str) == WellFormedFrom(str, 1)

\* C25, as the spec states it: whatever string was written through the
\* fallback encoding, readLogFile gives back that string.
C25_RoundTripAllInputs ==
  phase = "read" => readBack = [null |-> FALSE, text |-> written]

\* C25, amended: the round trip is exact for every well-formed string that
\* has a character other than white space, multibyte characters included.
C25_RoundTripWellFormed ==
  (phase = "read" /\ WellFormed(written) /\ ~IsBlank(written)) =>
    readBack = [null |-> FALSE, text |-> written]

\* A string with a character outside the Basic Multilingual Plane and one of
\* three bytes has been written through the fallback and read back.
C25_Witness ==
  /\ phase = "read" /\ WellFormed(written)
  /\ \E i \in 1..Len(written) : IsHighSurrogate(written[i])
  /\ \E i \in 1..Len(written) : written[i] = 8364
  /\ Len(disk) > Len(written)
  /\ readBack = [null |-> FALSE, text |-> written]

\* C26: no call of Logger.writeToFile rejects and no callback of the write
\* queue is skipped, whatever failed before it; and every call that was
\* submitted returns.
C26_FailedAppendNeverBlocks ==
  /\ [](\A t \in Calls :
          IsLoggerWrite(t) =>
            /\ ~tasks[t].raised
            /\ tasks[t].pc = "done" => tasks[t].fate \in {"dropped", "appended", "failed"})
  /\ \A t \in 1..LoggerWriteMaxTasks :
       (t \in Calls /\ IsLoggerWrite(t)) ~> (t \in Calls /\ tasks[t].pc = "done")

\* A write failed in both encodings and a write submitted after it has been
\* appended to the session file.
C26_Witness ==
  \E t, u \in Calls :
    /\ t < u /\ IsLoggerWrite(t) /\ IsLoggerWrite(u)
    /\ tasks[t].pc = "done" /\ tasks[t].fate = "failed"
    /\ tasks[u].pc = "done" /\ tasks[u].fate = "appended"
    /\ \E p \in DOMAIN files : \E k \in 1..Len(files[p].lines) :
         files[p].lines[k].kind = "entry" /\ files[p].lines[k].id = u

\* C29: when the stat of a write resolves, rotateLogFile is entered if and
\* only if the size has reached the configured maxLogSizeMB.
C29_RotatesAtConfiguredSize ==
  [][\A t \in Calls :
       (/\ tasks[t].pc = "X_w_stat" /\ tasks'[t] # tasks[t]
        /\ faults' = faults /\ FileExists(files, tasks[t].filePath))
       => (tasks'[t].ret = "rotate"
             <=> files[tasks[t].filePath].size >= limits.maxSizeMB * 1024 * 1024)]_vars

(***************************************************************************)
(* The filter check of a log call: Logger.shouldLog and Logger.log          *)
(* (part_000 203-268), and log of logger.ts (part_000 513-584).             *)
(***************************************************************************)

MaxFilterLen == 2    \* the length of a filter, brackets around it apart
MaxArgLen == 3       \* the length of the first message argument

FilterAlphabet == {"[", "]", "n", "N"}

Texts(n) == UNION {[1..k -> FilterAlphabet] : k \in 0..n}

\* The filters that are configured: none, one, or two.
FilterTexts ==
  Texts(MaxFilterLen) \cup {<<"[", c, "]">> : c \in {"n", "N"}}

FilterLists ==
  {<<>>} \cup {<<f>> : f \in FilterTexts} \cup {<<f, <<"N", "]">> >> : f \in FilterTexts}

\* A message argument: a string, or a value of another type.
StringArg(text) == [isString |-> TRUE, text |-> text]
OtherArg == [isString |-> FALSE, text |-> <<>>]

ArgLists ==
  LET first == {StringArg(x) : x \in Texts(MaxArgLen)} \cup {OtherArg}
      second == {StringArg(x) : x \in Texts(1)} \cup {OtherArg}
  IN {<<a>> : a \in first} \cup {<<a, b>> : a \in first, b \in second}

\* String.prototype.toLowerCase on the characters of the model.
ToLowerCase(text) == [i \in 1..Len(text) |-> IF text[i] = "N" THEN "n" ELSE text[i]]

\* String.prototype.includes.
Includes(text, part) ==
  \E i \in 0..(Len(text) - Len(part)) : SubSeq(text, i + 1, i + Len(part)) = part

\* filter.startsWith('[') ? filter : `[${filter}]` (line 207).
FilterPattern(filter) ==
  IF Len(filter) > 0 /\ filter[1] = "[" THEN filter ELSE <<"[">> \o filter \o <<"]">>

\* Logger.shouldLog(message) (lines 203-210).
ShouldLog(message) ==
  IF Len(filters) = 0 THEN TRUE
  ELSE ~\E i \in 1..Len(filters) :
          Includes(ToLowerCase(message), ToLowerCase(FilterPattern(filters[i])))

\* logger.ts: shouldFilter (lines 515-523).
ShouldFilter(messageParts) ==
  \E j \in 1..Len(messageParts) :
    /\ messageParts[j].isString
    /\ \E i \in 1..Len(filters) :
         Includes(ToLowerCase(messageParts[j].text), ToLowerCase(filters[i]))

FilterInit ==
  /\ now = StartDate
  /\ ticks = 0
  /\ fname = NULL /\ genAt = NoDate
  /\ prevName = NULL /\ prevAt = NoDate
  /\ platform = "ios"
  /\ limits = DefaultLimits
  /\ logDirectoryPath = NULL
  /\ initializationInProgress = FALSE
  /\ \/ isSessionInitialized = TRUE /\ currentSessionLogPath = LoggerSessionFile
     \/ isSessionInitialized = FALSE /\ currentSessionLogPath = NoPath
  /\ dirs = {LoggerLogsDir} /\ files = <<>> /\ probes = {}
  /\ tasks = <<>> /\ sweeps = <<>>
  /\ faults = 0
  /\ budget = [tasks |-> 0, faults |-> 0]
  /\ hist = NoHist
  /\ CodecIdle /\ ConfigIdle
  /\ filters \in FilterLists
  /\ args \in ArgLists
  /\ outcome = NoOutcome

Produced(impl, console, appends) ==
  /\ outcome = NoOutcome
  /\ outcome' = [impl |-> impl, console |-> console, appends |-> appends]
  /\ UNCHANGED <<filters, args, dateVars, platform, limits, sessVars, dirs, files, probes,
                 tasks, sweeps, faults, budget, hist, codecVars, configVars>>

\* Logger.log(level, ...messages) with a valid level and storage that works
\* (lines 212-268): only a first argument that is a string is checked; the
\* console method is called once; writeToFile appends the entry when the
\* logger is initialized and returns at once when it is not (lines 120-125).
LogViaLoggerClass ==
  IF args[1].isString /\ ~ShouldLog(args[1].text)
  THEN Produced("Logger.log", 0, 0)
  ELSE Produced("Logger.log", 1,
                IF isSessionInitialized /\ currentSessionLogPath # NoPath THEN 1 ELSE 0)

\* log(level, ...args) of logger.ts with storage that works (lines 513-570):
\* every string part is checked; the console method is called once; the entry
\* is handed to writeToFile, which initializes the session when needed.
LogViaLoggerTs ==
  IF ShouldFilter(args) THEN Produced("log", 0, 0) ELSE Produced("log", 1, 1)

FilterNext == LogViaLoggerClass \/ LogViaLoggerTs

SpecFilter == FilterInit /\ [][FilterNext]_vars

\* Some configured filter is a case-insensitive substring of some string
\* argument of the call.
FilterMatches ==
  \E i \in 1..Len(filters) : \E j \in 1..Len(args) :
    args[j].isString /\ Includes(ToLowerCase(args[j].text), ToLowerCase(filters[i]))

\* C27: a log call produces no console output and no append when a filter
\* matches one of its string arguments, and one console output and one append
\* of its entry when none does.
C27_SuppressedIffFilterMatches ==
  outcome.impl # "none" =>
    IF FilterMatches THEN outcome.console = 0 /\ outcome.appends = 0
    ELSE outcome.console = 1 /\ outcome.appends = 1

(***************************************************************************)
(* Logger.getInstance and the exports of index.ts (part_000 17-30,          *)
(* part_005).                                                               *)
(***************************************************************************)

MaxCalls == 3        \* calls on the exports of index.ts in one run

CustomMaxLogFiles == 10     \* the values of the configuration of index.test.ts
CustomMaxLogSizeMB == 5
CustomRetentionDays == 7

ConfigKeys == {"maxLogFiles", "maxLogSizeMB", "logRetentionDays", "filters"}

\* DEFAULT_CONFIG of constants.ts (colors and symbols left out).
DEFAULT_CONFIG ==
  [maxLogFiles |-> MAX_LOG_FILES, maxLogSizeMB |-> MAX_LOG_SIZE_MB,
   logRetentionDays |-> MAX_LOG_AGE_DAYS, filters |-> <<>>]

CustomConfig ==
  [maxLogFiles |-> CustomMaxLogFiles, maxLogSizeMB |-> CustomMaxLogSizeMB,
   logRetentionDays |-> CustomRetentionDays, filters |-> << <<"[", "n", "]">> >>]

\* The configurations initLogger can be given: every field is optional.
PartialConfigs == {[k \in keys |-> CustomConfig[k]] : keys \in SUBSET ConfigKeys}

\* { ...DEFAULT_CONFIG, ...config } (line 18).
MergeConfig(config) ==
  [k \in ConfigKeys |-> IF k \in DOMAIN config THEN config[k] ELSE DEFAULT_CONFIG[k]]

\* Logger.getInstance(config) (lines 25-30): the instance is constructed on the
\* first call only. The session the constructor starts is followed in
\* SpecLogger.
getInstance(config) ==
  IF ~instance.made THEN [made |-> TRUE, config |-> MergeConfig(config)] ELSE instance

ConfigInit ==
  /\ now = StartDate
  /\ ticks = 0
  /\ fname = NULL /\ genAt = NoDate
  /\ prevName = NULL /\ prevAt = NoDate
  /\ platform = "ios"
  /\ limits = DefaultLimits
  /\ isSessionInitialized = FALSE
  /\ logDirectoryPath = NULL
  /\ currentSessionLogPath = NoPath
  /\ initializationInProgress = FALSE
  /\ dirs = {} /\ files = <<>> /\ probes = {}
  /\ tasks = <<>> /\ sweeps = <<>>
  /\ faults = 0
  /\ budget = [tasks |-> 0, faults |-> 0]
  /\ hist = NoHist
  /\ CodecIdle /\ FilterIdle /\ ConfigIdle

Called(name, config, made) ==
  /\ Len(calls) < MaxCalls
  /\ calls' = Append(calls, name)
  /\ given' = config
  /\ instance' = made
  /\ UNCHANGED <<dateVars, platform, limits, sessVars, dirs, files, probes, tasks, sweeps,
                 faults, budget, hist, codecVars, filterVars>>

\* The module is loaded: `export default Logger.getInstance()` (part_005).
LoadIndex ==
  /\ calls = <<>>
  /\ Called("load", given, getInstance(<<>>))

\* log, debug, info, warn, error: Logger.getInstance().log(...).
CallLog == Called("log", given, getInstance(<<>>))

\* getLoggerInterface(): Logger.getInstance().loggerInterface.
CallGetLoggerInterface == Called("getLoggerInterface", given, getInstance(<<>>))

\* initLogger(config): Logger.getInstance(config).
CallInitLogger == \E config \in PartialConfigs : Called("initLogger", config, getInstance(config))

ConfigNext == LoadIndex \/ CallLog \/ CallGetLoggerInterface \/ CallInitLogger

SpecConfig == ConfigInit /\ [][ConfigNext]_vars

\* C28: when initLogger(config) has returned, the configuration of the Logger
\* instance is config merged over the defaults.
C28_InitLoggerConfigEffective ==
  (calls # <<>> /\ calls[Len(calls)] = "initLogger") =>
    instance.made /\ instance.config = MergeConfig(given)

\* The initialization of call t has passed its success point: a directory is
\* selected and the session marker is being appended.
Selected(t) == tasks[t].aret = "marker" /\ tasks[t].pc \in {"A_utf8", "A_b64"}

ProbePcs == {"T_exists", "T_mkdir", "T_write", "T_unlink"}

\* C31, as the spec states it: the selected directory is the first candidate
\* that passed the write probe, so every candidate before it failed its probe.
C31_FirstProbedDirSelected ==
  \A t \in Calls :
    Selected(t) => \A i \in 1..Len(tasks[t].dirLog) : tasks[t].dirLog[i] = "probe"

\* C31, amended: the selected directory is the candidate the loop stands at,
\* which passed its probe; every candidate before it was given up, for a
\* failed probe or a failed set-up of the session file; and no probe is made
\* after the selection.
C31_FirstUsableDirSelected ==
  [][\A t \in Calls :
       Selected(t) =>
         /\ tasks[t].filePath.dir = LogsPath(dirsToTry(platform)[tasks[t].dirIdx])
         /\ Len(tasks[t].dirLog) = tasks[t].dirIdx - 1
         /\ tasks'[t].pc \notin ProbePcs]_vars

\* The probe of the preferred directory failed and the fallback directory,
\* whose probe passed, is selected.
C31_Witness ==
  \E t \in Calls :
    /\ Selected(t) /\ tasks[t].dirLog = <<"probe">>
    /\ tasks[t].filePath.dir = LogsPath(dirsToTry(platform)[2])
    /\ logDirectoryPath = tasks[t].filePath.dir

\* The append of the session marker of call t settles in this step.
MarkerEnds(t) ==
  /\ Selected(t) /\ tasks'[t] # tasks[t]
  /\ ~(tasks[t].pc = "A_utf8" /\ tasks'[t].pc = "A_b64")

LinesOf(fs, p) == IF FileExists(fs, p) THEN fs[p].lines ELSE <<>>

\* C32: when the marker append of a full initialization settles, the active
\* file has one line more, the session marker, worded 'New Log Session
\* Started' when this initialization found no file and created it and 'App
\* Session Resumed' when it found the file.
C32_OneMarkerPerInitialization ==
  [][\A t \in Calls :
       MarkerEnds(t) =>
         LET p == tasks[t].filePath
             after == LinesOf(files', p)
         IN /\ Len(after) = Len(LinesOf(files, p)) + 1
            /\ after[Len(after)].kind = (IF tasks[t].createdNewFile THEN "new" ELSE "resumed")
            /\ after[Len(after)].id = tasks[t].arg]_vars

\* SessionState and storage.
sessionAndStorage ==
  <<isSessionInitialized, logDirectoryPath, currentSessionLogPath,
    initializationInProgress, dirs, files, probes, sweeps>>

Ready ==
  /\ isSessionInitialized /\ currentSessionLogPath # NoPath /\ logDirectoryPath # NULL

\* Call t of initSessionLog is at the fast check and its exists() resolves.
FastCheckResolves(t) ==
  /\ tasks[t].op = "init" /\ tasks[t].pc = "I_fast"
  /\ tasks'[t] # tasks[t] /\ faults' = faults

\* C33: initSessionLog called on a ready session whose file name is the one
\* of the current date goes to the fast check changing nothing, and when the
\* fast check finds the file it returns true leaving SessionState and storage
\* as they are: no marker, no file, no sweep.
C33_FastCheckChangesNothing ==
  [][/\ (/\ Len(tasks') > Len(tasks)
         /\ tasks'[Len(tasks')].op = "init"
         /\ Ready
         /\ FileNameOf(currentSessionLogPath) = generateLogFilename(now))
        => /\ tasks'[Len(tasks')].pc = "I_fast"
           /\ UNCHANGED sessionAndStorage
     /\ \A t \in Calls :
          (FastCheckResolves(t) /\ FileExists(files, tasks[t].filePath))
            => /\ tasks'[t].pc = "done" /\ tasks'[t].res = TRUE
               /\ UNCHANGED sessionAndStorage]_vars

\* A ready session on which initSessionLog has returned through the fast
\* check, after the initialization that made it ready.
C33_Witness ==
  /\ Ready /\ FileExists(files, currentSessionLogPath)
  /\ \E t \in Calls :
       /\ tasks[t].op = "init" /\ tasks[t].pc = "done"
       /\ tasks[t].fate = "fast" /\ tasks[t].res = TRUE

\* C34: in every state, between any two awaits of any call, a session marked
\* initialized has its log directory and its active file path.
C34_InitializedHasPaths ==
  isSessionInitialized => logDirectoryPath # NULL /\ currentSessionLogPath # NoPath

\* The files of a sweep beyond the count cutoff of its sort.
BeyondCutoff(ev) ==
  {ev.sorted[k].name : k \in {j \in 1..Len(ev.sorted) : limits.maxFiles > 0 /\ j > limits.maxFiles}}

\* The age and size rules mark no file beyond the count cutoff or marked by
\* the count rule, the size rule marks no file the age rule marked, and the
\* unlinks pending are those of the marked files, one for each.
MarksCascade ==
  /\ \A i \in Evaluated :
       LET ev == sweeps[i].eval
       IN /\ (ev.byAge \cup ev.bySize) \cap BeyondCutoff(ev) = {}
          /\ (ev.byAge \cup ev.bySize) \cap ev.byCount = {}
          /\ ev.byAge \cap ev.bySize = {}
          /\ sweeps[i].pending \subseteq
               {MkPath(sweeps[i].dir, n) : n \in ev.byCount \cup ev.byAge \cup ev.bySize}

\* A settled unlink leaves the pending set of its sweep for good.
UnlinkedOnce ==
  \A i \in Evaluated :
       (Len(sweeps') = Len(sweeps) /\ sweeps'[i] # sweeps[i])
         => /\ sweeps'[i].pending \subseteq sweeps[i].pending
            /\ sweeps'[i].pending # sweeps[i].pending

\* C35: the rules of a sweep cascade: the age and size rules examine only the
\* files that survived the count rule, the size rule is not applied to a file
\* the age rule marked, and a file qualifying under several rules is unlinked
\* at most once in a sweep.
C35_RulesCascade == []MarksCascade /\ [][UnlinkedOnce]_vars

\* A sweep has marked by count a file that is also too old and too large, and
\* marked by age a file that survived the count rule.
C35_Witness ==
  \E i \in Evaluated :
    LET ev == sweeps[i].eval
    IN /\ \E f \in SortedFiles(ev) :
            f.name \in ev.byCount /\ TooOld(f, limits) /\ TooLarge(f, limits)
       /\ Cardinality(sweeps[i].pending) = Cardinality(ev.byCount) + Cardinality(ev.byAge)
                                             + Cardinality(ev.bySize)

\* The file operations of the loggerInterface and the awaits of their own.
FileOps == {"getLogFiles", "readLogFile", "deleteLogFile", "deleteAllLogs"}

FileOpPcs == {"G_ls", "R_exists", "R_stat", "R_utf8", "R_b64", "D_unlink", "DA_unlink"}

sessionState == <<isSessionInitialized, logDirectoryPath, currentSessionLogPath>>

\* C36: getLogFiles, readLogFile, deleteLogFile and deleteAllLogs write no
\* field of SessionState themselves: the step that issues one of them and
\* every step that resumes one after an await of its own leave initialized,
\* logDirectory and activeFilePath as they are, and a call issued with the
\* log directory resolved starts no initialization; what is left are the
\* steps of the initSessionLog the call awaits.
C36_FileOpsLeaveSessionState ==
  [][/\ (Len(tasks') > Len(tasks) /\ tasks'[Len(tasks')].op \in FileOps)
          => /\ UNCHANGED sessionState
             /\ logDirectoryPath # NULL => tasks'[Len(tasks')].pc \in FileOpPcs \cup {"done"}
     /\ \A t \in Calls :
          (tasks[t].op \in FileOps /\ tasks[t].pc \in FileOpPcs /\ tasks'[t] # tasks[t])
            => UNCHANGED sessionState]_vars

\* getLogFiles has initialized the session and returned, and deleteAllLogs,
\* issued on the ready session, has deleted the other files and returned.
C36_Witness ==
  /\ Ready /\ Len(tasks) = 2
  /\ tasks[1].op = "getLogFiles" /\ tasks[1].pc = "done" /\ tasks[1].res # <<>>
  /\ tasks[2].op = "deleteAllLogs" /\ tasks[2].pc = "done" /\ tasks[2].res = TRUE
  /\ NamesIn(files, logDirectoryPath) \cap DatedLogNames = {FileNameOf(currentSessionLogPath)}

\* The sweeps launched by an initialization.
LaunchedByInit == {i \in 1..Len(sweeps) : sweeps[i].made # NoPath}

\* C37: a sweep launched by an initialization issues no unlink for the file
\* that this initialization made active, whatever happens to the session
\* while the sweep is in flight.
C37_SweepSparesItsSessionFile ==
  \A i \in LaunchedByInit : sweeps[i].made \notin sweeps[i].pending

(***************************************************************************)
(* The concurrency lock of initSessionLog: calls of initSessionLog and of  *)
(* writeToFile, alone and two at a time, with the storage primitives       *)
(* failing up to every directory.                                          *)
(***************************************************************************)

\* The steps of the call t that is in flight.
LockStep(t) ==
  /\ t \in 1..Len(tasks)
  /\ \/ AwaitFastExists(t)
     \/ AwaitInitWait(t)
     \/ AwaitProbeExists(t)
     \/ AwaitProbeMkdir(t)
     \/ AwaitProbeWrite(t)
     \/ AwaitProbeUnlink(t)
     \/ AwaitSessionExists(t)
     \/ AwaitCreateExists(t)
     \/ AwaitCreateWrite(t)
     \/ AwaitAppendUtf8(t)
     \/ AwaitAppendBase64(t)
     \/ AwaitFinalExists(t)
     \/ AwaitWriteExists(t)

LockNext ==
  \/ StartInit
  \/ StartWrite
  \/ \E t \in 1..Len(tasks) : AwaitFastExists(t)
  \/ \E t \in 1..Len(tasks) : AwaitInitWait(t)
  \/ \E t \in 1..Len(tasks) : AwaitProbeExists(t)
  \/ \E t \in 1..Len(tasks) : AwaitProbeMkdir(t)
  \/ \E t \in 1..Len(tasks) : AwaitProbeWrite(t)
  \/ \E t \in 1..Len(tasks) : AwaitProbeUnlink(t)
  \/ \E t \in 1..Len(tasks) : AwaitSessionExists(t)
  \/ \E t \in 1..Len(tasks) : AwaitCreateExists(t)
  \/ \E t \in 1..Len(tasks) : AwaitCreateWrite(t)
  \/ \E t \in 1..Len(tasks) : AwaitAppendUtf8(t)
  \/ \E t \in 1..Len(tasks) : AwaitAppendBase64(t)
  \/ \E t \in 1..Len(tasks) : AwaitFinalExists(t)
  \/ \E t \in 1..Len(tasks) : AwaitWriteExists(t)

SpecLock == FacadeInit /\ [][LockNext]_vars

\* Every storage primitive settles and the 250 ms timer fires: each step of a
\* call in flight is eventually taken. Nothing obliges the application to
\* call again.
SpecLockFair == SpecLock /\ \A t \in 1..FacadeMaxTasks : WF_vars(LockStep(t))

\* The call t is inside the try block of initSessionLog (lines 166-267).
HoldsLock(t) ==
  \/ tasks[t].pc \in DirLoopPcs \cup {"A0_exists", "A0_write"}
  \/ tasks[t].pc \in {"A_utf8", "A_b64"} /\ tasks[t].aret \in {"create", "marker"}

\* C38: the in-progress flag is set only while a call is inside the try block
\* of initSessionLog, and once set it is eventually cleared, so that a later
\* initSessionLog can take it again.
C38_LockAlwaysReleased ==
  /\ [](initializationInProgress => \E t \in Calls : HoldsLock(t))
  /\ initializationInProgress ~> ~initializationInProgress

\* An initialization has failed in every directory, the flag is clear, and a
\* later initSessionLog has run a full initialization and succeeded.
C38_Witness ==
  /\ ~initializationInProgress /\ Len(tasks) = 2
  /\ tasks[1].op = "init" /\ tasks[1].pc = "done" /\ tasks[1].res = FALSE
  /\ tasks[2].op = "init" /\ tasks[2].pc = "done" /\ tasks[2].res = TRUE
  /\ tasks[2].fate # "fast" /\ Ready

(***************************************************************************)
(* cleanupCurrentSession beside the calls that write the session file:     *)
(* three calls among initSessionLog, writeToFile and cleanupCurrentSession.*)
(***************************************************************************)

\* Bounds of a run with cleanupCurrentSession.
CleanupMaxTasks == 3
CleanupMaxFaults == 1

CleanupInit ==
  /\ now = StartDate
  /\ ticks = 0
  /\ fname = NULL /\ genAt = NoDate
  /\ prevName = NULL /\ prevAt = NoDate
  /\ platform \in Platforms
  /\ limits = DisabledLimits
  /\ isSessionInitialized = FALSE
  /\ logDirectoryPath = NULL
  /\ currentSessionLogPath = NoPath
  /\ initializationInProgress = FALSE
  /\ \E st \in InitialSetups(platform) : dirs = st.dirs /\ files = st.files
  /\ probes = {}
  /\ tasks = <<>> /\ sweeps = <<>>
  /\ faults = 0
  /\ budget = [tasks |-> CleanupMaxTasks, faults |-> CleanupMaxFaults]
  /\ hist = NoHist
  /\ AppIdle

CleanupNext ==
  \/ StartInit
  \/ StartWrite
  \/ StartCleanupCurrentSession
  \/ \E t \in 1..Len(tasks) : AwaitFastExists(t)
  \/ \E t \in 1..Len(tasks) : AwaitInitWait(t)
  \/ \E t \in 1..Len(tasks) : AwaitProbeExists(t)
  \/ \E t \in 1..Len(tasks) : AwaitProbeMkdir(t)
  \/ \E t \in 1..Len(tasks) : AwaitProbeWrite(t)
  \/ \E t \in 1..Len(tasks) : AwaitProbeUnlink(t)
  \/ \E t \in 1..Len(tasks) : AwaitSessionExists(t)
  \/ \E t \in 1..Len(tasks) : AwaitCreateExists(t)
  \/ \E t \in 1..Len(tasks) : AwaitCreateWrite(t)
  \/ \E t \in 1..Len(tasks) : AwaitAppendUtf8(t)
  \/ \E t \in 1..Len(tasks) : AwaitAppendBase64(t)
  \/ \E t \in 1..Len(tasks) : AwaitFinalExists(t)
  \/ \E t \in 1..Len(tasks) : AwaitWriteExists(t)
  \/ \E t \in 1..Len(tasks) : AwaitCleanupStat(t)
  \/ \E t \in 1..Len(tasks) : AwaitDeleteUnlink(t)

SpecCleanup == CleanupInit /\ [][CleanupNext]_vars

\* The unlink of cleanupCurrentSession, call t, settles and removes its file.
CleanupUnlinks(t) ==
  /\ tasks[t].op = "cleanupCurrentSession" /\ tasks[t].pc = "D_unlink"
  /\ tasks'[t] # tasks[t]
  /\ FileExists(files, tasks[t].filePath) /\ ~FileExists(files', tasks[t].filePath)

HasEntry(f) == \E k \in 1..Len(f.lines) : f.lines[k].kind = "entry"

\* C39: the file cleanupCurrentSession unlinks holds no log entry at the
\* moment of the unlink, whatever write was in flight since its stat.
C39_CleanupUnlinksNoEntry ==
  [][\A t \in Calls : CleanupUnlinks(t) => ~HasEntry(files[tasks[t].filePath])]_vars

\* The call t is in rotateLogFile, at one of its unlinks, which settles.
RotateUnlinkSettles(t) ==
  /\ tasks[t].pc \in {"X_r_test", "X_r_unlink"}
  /\ tasks'[t] # tasks[t]

\* C40: an unlink of Logger.rotateLogFile removes no file but the session
\* file the rotation replaces, and when rotateLogFile returns with none of
\* its primitives failing the session file path names a file that exists, to
\* which the triggering entry is then appended.
C40_RotationKeepsNewFile ==
  [][\A t \in Calls :
       RotateUnlinkSettles(t) =>
         /\ \A p \in DOMAIN files : ~FileExists(files', p) => p = tasks[t].saved
         /\ (tasks'[t].pc = "X_w_append" /\ faults' = faults)
              => FileExists(files', currentSessionLogPath')]_vars

====
